---- MODULE Spec2Model ----
(***************************************************************************)
(* A model of rag-mcp: the ingestion pipeline and its storage (documents,  *)
(* chunks, entity relations, write audit), the chunk embedding cache, the  *)
(* write-path validator of the tool surface, and the search path (vector   *)
(* search, reciprocal rank fusion, hybrid search).                         *)
(*                                                                         *)
(* Strings are sequences of tokens.  A path token is one of the characters *)
(* the code inspects ("/", "\\", ".", " ") or a word free of them; a       *)
(* content is a sequence of characters, and its UTF-8 bytes are computed   *)
(* by Bytes.  SHA-256 is modelled as an injective tagged tuple.            *)
(***************************************************************************)
EXTENDS Integers, Sequences, FiniteSets, TLC

VARIABLES
    disk,                \* files under rag_folder: relative path -> content
    documents,           \* table documents, keyed by doc_path
    chunks,              \* table chunks (set of rows)
    entity_relations,    \* table entity_relations (set of rows)
    document_operations, \* table document_operations: number of audit rows
    cache,               \* ChunkEmbeddingCache.inner: None, or Some(chunk_id -> embedding)
    lastOp,              \* history: the handler that ran last and its outcome
    request,             \* search side: the inputs of the search under check
    response             \* search side: what the search functions returned

vars == <<disk, documents, chunks, entity_relations, document_operations,
          cache, lastOp, request, response>>

storeVars == <<disk, documents, chunks, entity_relations, document_operations,
               cache, lastOp>>
searchVars == <<request, response>>

----------------------------------------------------------------------------
(* Generic helpers. *)

\* Option::None of a string, SQL NULL of a blob
NoAgent == <<>>
NoEmbedding == <<>>

Range(s) == {s[i] : i \in 1..Len(s)}

RECURSIVE SeqsUpTo(_, _)
SeqsUpTo(S, n) ==
    IF n = 0 THEN {<<>>}
    ELSE LET shorter == SeqsUpTo(S, n - 1)
         IN  shorter \cup {Append(s, x) : s \in {t \in shorter : Len(t) = n - 1}, x \in S}

Min2(a, b) == IF a <= b THEN a ELSE b

IsPrefix(p, s) == Len(p) <= Len(s) /\ SubSeq(s, 1, Len(p)) = p

\* str.trim(): leading and trailing whitespace removed
RECURSIVE TrimLeft(_)
TrimLeft(s) == IF s # <<>> /\ Head(s) = " " THEN TrimLeft(Tail(s)) ELSE s

RECURSIVE TrimRight(_)
TrimRight(s) ==
    IF s # <<>> /\ s[Len(s)] = " " THEN TrimRight(SubSeq(s, 1, Len(s) - 1)) ELSE s

Trim(s) == TrimRight(TrimLeft(s))

\* str.split(sep): the segments between separators, empty ones kept
RECURSIVE SplitOn(_, _, _)
SplitOn(s, sep, cur) ==
    IF s = <<>> THEN <<cur>>
    ELSE IF Head(s) = sep THEN <<cur>> \o SplitOn(Tail(s), sep, <<>>)
    ELSE SplitOn(Tail(s), sep, Append(cur, Head(s)))

\* str.replace('\\', "/")
NormalizeSeparators(p) == [i \in 1..Len(p) |-> IF p[i] = "\\" THEN "/" ELSE p[i]]

\* str.to_lowercase() on the words of the model
LowerTok(t) ==
    CASE t = "Guides" -> "guides"
      [] t = "Agent" -> "agent"
      [] t = "A" -> "a"
      [] t = "B" -> "b"
      [] OTHER -> t

Lower(s) == [i \in 1..Len(s) |-> LowerTok(s[i])]

----------------------------------------------------------------------------
(* Hashes and identifiers. *)

\* Sha256 of a byte string, as hex
Sha256Hex(x) == <<"sha256", x>>

\* insert_document: doc_id = sha256(doc_path)
DocId(doc_path) == Sha256Hex(doc_path)

\* insert_chunks: chunk_id = format!("{}::{}", doc_id, count + idx)
ChunkIdFormat(doc_id, n) == <<doc_id, "::", n>>

----------------------------------------------------------------------------
(* ingest/metadata.rs *)

\* split_whitespace().join("-") on a trimmed segment
RECURSIVE JoinHyphen(_, _)
JoinHyphen(s, inGap) ==
    IF s = <<>> THEN <<>>
    ELSE IF Head(s) = " "
         THEN IF inGap THEN JoinHyphen(Tail(s), TRUE)
              ELSE <<"-">> \o JoinHyphen(Tail(s), TRUE)
         ELSE <<Head(s)>> \o JoinHyphen(Tail(s), FALSE)

extract_namespace(relative_path) ==
    LET normalized == NormalizeSeparators(relative_path)
        first == Trim(SplitOn(normalized, "/", <<>>)[1])
    IN  IF "/" \notin Range(normalized) THEN <<"all">>
        ELSE IF first = <<>> THEN <<"all">>
        ELSE JoinHyphen(Lower(first), FALSE)

extract_agent_name(relative_path) ==
    LET normalized == NormalizeSeparators(relative_path)
        segments == SelectSeq(SplitOn(normalized, "/", <<>>), LAMBDA s : s # <<>>)
    IN  IF Len(segments) >= 3 /\ Trim(segments[2]) # <<>>
        THEN Trim(segments[2])
        ELSE NoAgent

\* Path::extension().to_lowercase(): what follows the last dot of the file name;
\* "" when there is none or the name only starts with its dot
RECURSIVE LastDot(_, _)
LastDot(name, i) ==
    IF i <= 1 THEN 0 ELSE IF name[i] = "." THEN i ELSE LastDot(name, i - 1)

Extension(relative_path) ==
    LET segments == SelectSeq(SplitOn(relative_path, "/", <<>>), LAMBDA s : s # <<>>)
        name == IF segments = <<>> THEN <<>> ELSE segments[Len(segments)]
        d == LastDot(name, Len(name))
    IN  IF d = 0 THEN <<>> ELSE Lower(SubSeq(name, d + 1, Len(name)))

compute_file_hash(content) == Sha256Hex(content)

----------------------------------------------------------------------------
(* Model configuration (config.performance) and the program's constants. *)

\* performance.chunk_size_tokens and chunk_overlap_tokens of the model's
\* config; Config::validate requires overlap < size
ChunkSizeTokens == 1
ChunkOverlapTokens == 0

\* insert_chunks: const BATCH_SIZE
BATCH_SIZE == 100

----------------------------------------------------------------------------
(* Contents and their UTF-8 bytes.  The arrow U+2192 is the one multi-byte *)
(* character of the model: E2 86 92.                                       *)

Arrow == "→"

RECURSIVE Bytes(_)
Bytes(chars) ==
    IF chars = <<>> THEN <<>>
    ELSE (IF Head(chars) = Arrow THEN <<"E2", "86", "92">> ELSE <<Head(chars)>>)
         \o Bytes(Tail(chars))

IsContinuationByte(b) == b \in {"86", "92"}

IsWhitespace(c) == c = " "

\* \w of the regex crate: letters, digits, underscore
IsWordChar(c) == c \notin {" ", Arrow, "-", ".", "!", "?", "/", "\\"}

----------------------------------------------------------------------------
(* ingest/parsers *)

find_parser(extension) ==
    CASE extension = <<"xml">> -> "xml"
      [] extension \in {<<"yaml">>, <<"yml">>} -> "yaml"
      [] extension = <<"json">> -> "json"
      [] extension = <<"md">> -> "markdown"
      [] OTHER -> "none"

\* PlainTextParser::parse: one section holding the whole content
PlainTextParse(content, path) ==
    [ok |-> TRUE,
     content |-> content,
     sections |-> <<content>>,
     doc_type |-> IF Len(path) >= 2 /\ SubSeq(path, Len(path) - 1, Len(path))
                                        \in {<<".", "yaml">>, <<".", "yml">>}
                      THEN "yaml_plaintext"
                  ELSE IF Len(path) >= 2
                          /\ SubSeq(path, Len(path) - 1, Len(path)) = <<".", "json">>
                      THEN "json_plaintext"
                  ELSE IF Len(path) >= 2
                          /\ SubSeq(path, Len(path) - 1, Len(path)) = <<".", "xml">>
                      THEN "xml_plaintext"
                  ELSE "plaintext"]

\* MarkdownParser::parse on a content that holds no markdown syntax (every model
\* content is one paragraph of words, spaces and arrows): no heading, so the one
\* section is the trimmed text, or the content itself when that is empty
MarkdownParse(content) ==
    [ok |-> TRUE,
     content |-> content,
     sections |-> <<IF Trim(content) # <<>> THEN Trim(content) ELSE content>>,
     doc_type |-> "markdown"]

\* XmlParser::parse on a content without tags (every model content is words,
\* spaces and arrows): one Text event outside any section, so the one section is
\* the whole content under the header "root"
XmlParse(content, path) ==
    [ok |-> TRUE,
     content |-> content,
     sections |-> <<content>>,
     doc_type |-> IF \E i \in 1..Len(path) : path[i] \in {"agent", "agents"}
                  THEN "agent_prompt" ELSE "xml"]

\* YamlParser::parse on a content that is one plain scalar: the section "root"
\* holds the scalar, the text without the surrounding blanks, or "null" for none
YamlParse(content) ==
    [ok |-> TRUE,
     content |-> content,
     sections |-> <<IF Trim(content) # <<>> THEN Trim(content) ELSE <<"null">> >>,
     doc_type |-> "yaml"]

\* ParserRegistry::parse: no parser for the extension is an error; a failing
\* primary parser falls back to plain text.  No model content is valid JSON, so
\* JsonParser::parse always fails.
ParserRegistry_parse(content, path, extension) ==
    LET parser == find_parser(extension)
    IN  CASE parser = "none" -> [ok |-> FALSE, content |-> content,
                                 sections |-> <<>>, doc_type |-> "ParseError"]
          [] parser = "markdown" -> MarkdownParse(content)
          [] parser = "xml" -> XmlParse(content, path)
          [] parser = "yaml" -> YamlParse(content)
          [] OTHER -> PlainTextParse(content, path)

----------------------------------------------------------------------------
(* ingest/chunker.rs.  Positions are the code's 0-based byte offsets.      *)

is_char_boundary(text, i) ==
    i = 0 \/ i = Len(text) \/ (i < Len(text) /\ ~IsContinuationByte(text[i + 1]))

RECURSIVE PrevBoundary(_, _)
PrevBoundary(text, i) ==
    IF i <= 0 THEN 0
    ELSE IF is_char_boundary(text, i) THEN i ELSE PrevBoundary(text, i - 1)

find_char_boundary(text, byte_pos) ==
    IF byte_pos >= Len(text) THEN Len(text)
    ELSE IF is_char_boundary(text, byte_pos) THEN byte_pos
    ELSE PrevBoundary(text, byte_pos - 1)

saturating_sub(a, b) == IF a >= b THEN a - b ELSE 0

\* the last break character (whitespace . ! ?) of text[from..to), or -1
RECURSIVE LastBreak(_, _, _)
LastBreak(text, from, to) ==
    IF to <= from THEN -1
    ELSE IF IsWhitespace(text[to]) \/ text[to] \in {".", "!", "?"} THEN to - 1
    ELSE LastBreak(text, from, to - 1)

RECURSIVE NextBoundary(_, _)
NextBoundary(text, i) ==
    IF i < Len(text) /\ ~is_char_boundary(text, i) THEN NextBoundary(text, i + 1) ELSE i

\* One iteration of chunk_text's loop from start_byte, in the order the code
\* computes it: start_byte, end_byte, the break search, chunk_end_byte, the next
\* start.  char_size and char_overlap are size_tokens * 4 and overlap_tokens * 4.
ChunkStepResult(text, start_byte, chunk_end_byte, new_start_byte) ==
    [sliced |-> start_byte <= chunk_end_byte,
     chunk |-> IF start_byte <= chunk_end_byte
               THEN Trim(SubSeq(text, start_byte + 1, chunk_end_byte))
               ELSE <<>>,
     last |-> chunk_end_byte >= Len(text),
     next |-> IF new_start_byte >= chunk_end_byte THEN chunk_end_byte
              ELSE new_start_byte]

ChunkStepEnd(text, start_byte, chunk_end_byte, char_overlap) ==
    ChunkStepResult(text, start_byte, chunk_end_byte,
        find_char_boundary(text, saturating_sub(chunk_end_byte, char_overlap)))

ChunkEnd(text, end_byte, boundary_byte) ==
    IF end_byte < Len(text) /\ boundary_byte >= 0
    THEN find_char_boundary(text, NextBoundary(text, boundary_byte + 1))
    ELSE end_byte

ChunkStepBreak(text, start_byte, end_byte, search_start_byte, char_overlap) ==
    ChunkStepEnd(text, start_byte,
        ChunkEnd(text, end_byte, LastBreak(text, search_start_byte, end_byte)),
        char_overlap)

ChunkStepTo(text, start_byte, end_byte, char_size, char_overlap) ==
    ChunkStepBreak(text, start_byte, end_byte,
        find_char_boundary(text, saturating_sub(end_byte, char_size \div 5)),
        char_overlap)

ChunkStepAt(text, start_byte, char_size, char_overlap) ==
    ChunkStepTo(text, start_byte,
        find_char_boundary(text, Min2(start_byte + char_size, Len(text))),
        char_size, char_overlap)

ChunkStep(text, start0, char_size, char_overlap) ==
    ChunkStepAt(text, find_char_boundary(text, start0), char_size, char_overlap)

RECURSIVE ChunkLoop(_, _, _, _, _)
RECURSIVE ChunkNext(_, _, _, _, _)
ChunkNext(text, st, char_size, char_overlap, acc) ==
    IF ~st.sliced THEN [ok |-> FALSE, chunks |-> <<>>]
    ELSE IF st.last THEN [ok |-> TRUE, chunks |-> Append(acc, st.chunk)]
    ELSE ChunkLoop(text, st.next, char_size, char_overlap, Append(acc, st.chunk))

ChunkLoop(text, start_byte, char_size, char_overlap, acc) ==
    IF ~(start_byte < Len(text)) THEN [ok |-> TRUE, chunks |-> acc]
    ELSE ChunkNext(text, ChunkStep(text, start_byte, char_size, char_overlap),
                   char_size, char_overlap, acc)

chunk_text(text, size_tokens, overlap_tokens) ==
    IF Trim(text) = <<>> THEN [ok |-> TRUE, chunks |-> <<>>]
    ELSE ChunkLoop(text, 0, size_tokens * 4, overlap_tokens * 4, <<>>)

RECURSIVE ChunkSections(_, _)
RECURSIVE ChunkSectionsNext(_, _, _)
ChunkSectionsNext(sections, r, acc) ==
    IF ~r.ok THEN r ELSE ChunkSections(Tail(sections), acc \o r.chunks)

ChunkSections(sections, acc) ==
    IF sections = <<>> THEN [ok |-> TRUE, chunks |-> acc]
    ELSE ChunkSectionsNext(sections,
            chunk_text(Bytes(Head(sections)), ChunkSizeTokens, ChunkOverlapTokens), acc)

\* chunk_document after the per-section loop: the whole content when no section
\* gave a chunk
ChunkFallback(parsed, bySection) ==
    IF ~bySection.ok THEN bySection
    ELSE IF bySection.chunks = <<>>
         THEN chunk_text(Bytes(parsed.content), ChunkSizeTokens, ChunkOverlapTokens)
         ELSE bySection

chunk_document(parsed) == ChunkFallback(parsed, ChunkSections(parsed.sections, <<>>))

----------------------------------------------------------------------------
(* graph/extraction.rs: the regex (\w+)\s*→\s*(\w+), leftmost matches that *)
(* do not overlap.                                                         *)

RECURSIVE WordEnd(_, _)
WordEnd(s, i) ==
    IF i < Len(s) /\ IsWordChar(s[i + 1]) THEN WordEnd(s, i + 1) ELSE i

RECURSIVE SkipWhitespace(_, _)
SkipWhitespace(s, i) ==
    IF i <= Len(s) /\ IsWhitespace(s[i]) THEN SkipWhitespace(s, i + 1) ELSE i

MatchAt(s, i) ==
    LET e1 == WordEnd(s, i)
        a == SkipWhitespace(s, e1 + 1)
        b == SkipWhitespace(s, a + 1)
        e2 == WordEnd(s, b)
    IN  IF IsWordChar(s[i]) /\ a <= Len(s) /\ s[a] = Arrow
           /\ b <= Len(s) /\ IsWordChar(s[b])
        THEN [ok |-> TRUE, from |-> SubSeq(s, i, e1), to |-> SubSeq(s, b, e2), end |-> e2]
        ELSE [ok |-> FALSE, from |-> <<>>, to |-> <<>>, end |-> i]

RECURSIVE CapturesIter(_, _, _)
CapturesIter(s, i, acc) ==
    IF i > Len(s) THEN acc
    ELSE LET m == MatchAt(s, i)
         IN  IF m.ok THEN CapturesIter(s, m.end + 1, Append(acc, m))
             ELSE CapturesIter(s, i + 1, acc)

\* the relations of a content, without their relation_id
extract_routing_relations(agent_name, content) ==
    LET caps == CapturesIter(content, 1, <<>>)
    IN  [i \in 1..Len(caps) |->
            [source_entity |-> <<"agent:">> \o Lower(caps[i].from),
             relation_type |-> "routes_to",
             target_entity |-> <<"agent:">> \o Lower(caps[i].to),
             metadata_json |-> <<"extracted_from", "agent:">> \o agent_name]]

----------------------------------------------------------------------------
(* ingest/db_writer.rs, ingest/incremental.rs, embeddings/storage.rs.      *)
(* A database value db is [documents, chunks, entity_relations].  The      *)
(* columns content_tokens, last_modified, chunk_tokens, section_header and *)
(* chunk_type are not modelled.                                            *)

\* metadata_json LIKE '%"extracted_from":"agent:<entity>"%' (LIKE ignores ASCII case)
LikeExtractedFrom(metadata_json, entity) ==
    Lower(metadata_json) = Lower(<<"extracted_from", "agent:">> \o entity)

\* Uuid::new_v4 of the i-th relation of a document: unique among the rows
RelationId(doc_path, i) == <<doc_path, i>>

insert_document(db, doc_path, doc_type, namespace, agent_name, content, file_hash) ==
    LET doc_id == DocId(doc_path)
        row == [doc_id |-> doc_id, doc_path |-> doc_path, doc_type |-> doc_type,
                namespace |-> namespace, agent_name |-> agent_name,
                content_text |-> content, file_hash |-> file_hash]
        relations == IF agent_name = NoAgent THEN <<>>
                     ELSE extract_routing_relations(agent_name, content)
    IN  [documents |-> [p \in DOMAIN db.documents \cup {doc_path} |->
                            IF p = doc_path THEN row ELSE db.documents[p]],
         chunks |-> {c \in db.chunks : c.doc_id # doc_id},
         entity_relations |->
            IF relations = <<>> THEN db.entity_relations
            ELSE {r \in db.entity_relations :
                        ~LikeExtractedFrom(r.metadata_json, agent_name)}
                 \cup {[relation_id |-> RelationId(doc_path, i),
                        source_entity |-> relations[i].source_entity,
                        relation_type |-> relations[i].relation_type,
                        target_entity |-> relations[i].target_entity,
                        metadata_json |-> relations[i].metadata_json]
                        : i \in 1..Len(relations)}]

\* a faulty numbering, against which C3 is checked: ordinals counted from 1
ChunkOrdinalFromOne(j) == j + 1

\* insert_chunks: count + idx of the j-th chunk (from 0) of the vector
ChunkOrdinal(j) == (j \div BATCH_SIZE) * BATCH_SIZE + (j % BATCH_SIZE)

insert_chunks(db, doc_id, chunkTexts) ==
    [db EXCEPT !.chunks = @ \cup
        {[chunk_id |-> ChunkIdFormat(doc_id, ChunkOrdinal(i - 1)),
          doc_id |-> doc_id,
          chunk_index |-> ChunkOrdinal(i - 1),
          chunk_text |-> chunkTexts[i],
          embedding |-> NoEmbedding] : i \in 1..Len(chunkTexts)}]

\* read, hash, derive metadata, parse, chunk, upsert, insert chunks:
\* ingest_file, process_file and the body shared by the two write tools
StoreParsed(db, doc_path, parsed, chunked, file_hash) ==
    IF ~parsed.ok THEN [ok |-> FALSE, db |-> db]
    ELSE IF ~chunked.ok THEN [ok |-> FALSE, db |-> db]
    ELSE [ok |-> TRUE,
          db |-> insert_chunks(
                    insert_document(db, doc_path, parsed.doc_type,
                                    extract_namespace(doc_path),
                                    extract_agent_name(doc_path), parsed.content,
                                    file_hash),
                    DocId(doc_path), chunked.chunks)]

ChunkParsed(db, doc_path, parsed, file_hash) ==
    StoreParsed(db, doc_path, parsed, chunk_document(parsed), file_hash)

IngestContent(db, doc_path, content) ==
    ChunkParsed(db, doc_path,
                ParserRegistry_parse(content, doc_path, Extension(doc_path)),
                compute_file_hash(content))

get_existing_hashes(db) ==
    [p \in DOMAIN db.documents |-> db.documents[p].file_hash]

classify_files(files, fs, existing) ==
    [new_files |-> {p \in files : p \notin DOMAIN existing},
     modified_files |-> {p \in files : p \in DOMAIN existing
                                        /\ existing[p] # compute_file_hash(fs[p])},
     unchanged_files |-> {p \in files : p \in DOMAIN existing
                                         /\ existing[p] = compute_file_hash(fs[p])}]

find_deleted_documents(db, existing_files) ==
    {p \in DOMAIN db.documents : p \notin existing_files}

\* DELETE FROM documents; the chunks go by the foreign key's ON DELETE CASCADE
delete_documents(db, doc_paths) ==
    [db EXCEPT !.documents = [p \in DOMAIN db.documents \ doc_paths |-> db.documents[p]],
               !.chunks = {c \in @ : \A p \in doc_paths : c.doc_id # db.documents[p].doc_id}]

\* the embedding the provider returns for a text
Embed(text) == <<"emb", text>>

get_chunks_without_embedding_for_doc(db, doc_id) ==
    {c \in db.chunks : c.doc_id = doc_id /\ c.embedding = NoEmbedding}

\* UPDATE chunks SET embedding = ? WHERE chunk_id = ?, for every pair
store_embeddings_batch(db, rows) ==
    [db EXCEPT !.chunks = {IF c \in rows THEN [c EXCEPT !.embedding = Embed(c.chunk_text)]
                           ELSE c : c \in @}]

----------------------------------------------------------------------------
(* mcp/roots.rs and the file system under rag_folder (Unix paths).          *)

\* PathValidator.canonical_root, as path components
CanonicalRoot == <<<<"srv">>, <<"rag">>>>

\* str.contains(".."): two adjacent dots
ContainsDotDot(s) == \E i \in 1..(Len(s) - 1) : s[i] = "." /\ s[i + 1] = "."

\* the segments of a path between slashes
Segments(path) == SplitOn(path, "/", <<>>)

\* Path::components of a relative path: empty segments and "." are dropped
Components(path) == SelectSeq(Segments(path), LAMBDA c : c # <<>> /\ c # <<".">>)

\* PathBuf::join: an absolute argument replaces the base
PathJoin(base, path) ==
    IF path # <<>> /\ Head(path) = "/" THEN Components(path)
    ELSE base \o Components(path)

\* a faulty validator, against which C10 is checked: the ".." test is left out
validate_without_traversal_check(relative_path) ==
    IF relative_path # <<>> /\ Head(relative_path) \in {"/", "\\"}
    THEN [ok |-> FALSE, full_path |-> <<>>]
    ELSE IF Trim(relative_path) = <<>>
    THEN [ok |-> FALSE, full_path |-> <<>>]
    ELSE [ok |-> TRUE, full_path |-> PathJoin(CanonicalRoot, relative_path)]

validate_write_path(relative_path) ==
    LET full_path == PathJoin(CanonicalRoot, relative_path)
    IN  IF ContainsDotDot(relative_path)
        THEN [ok |-> FALSE, full_path |-> <<>>]
        ELSE IF relative_path # <<>> /\ Head(relative_path) \in {"/", "\\"}
        THEN [ok |-> FALSE, full_path |-> <<>>]
        ELSE IF Trim(relative_path) = <<>>
        THEN [ok |-> FALSE, full_path |-> <<>>]
        ELSE IF ~IsPrefix(CanonicalRoot, full_path)
        THEN [ok |-> FALSE, full_path |-> <<>>]
        ELSE [ok |-> TRUE, full_path |-> full_path]

RECURSIVE JoinSlash(_)
JoinSlash(comps) ==
    IF comps = <<>> THEN <<>>
    ELSE IF Len(comps) = 1 THEN comps[1]
    ELSE comps[1] \o <<"/">> \o JoinSlash(Tail(comps))

\* the key of a file in the model's disk: its clean path relative to rag_folder
FileKey(relative_path) == JoinSlash(Components(relative_path))

\* the path names a directory by its form: it ends in a slash or in a "." segment
DirectoryForm(relative_path) ==
    LET segs == Segments(relative_path)
    IN  segs[Len(segs)] = <<>> \/ segs[Len(segs)] = <<".">>

IsDirectory(fs, key) ==
    key = <<>> \/ \E f \in DOMAIN fs : IsPrefix(key \o <<"/">>, f)

\* some proper ancestor of the key is a regular file
UnderFile(fs, key) == \E f \in DOMAIN fs : IsPrefix(f \o <<"/">>, key)

\* Path::exists
PathExists(fs, relative_path) ==
    LET key == FileKey(relative_path)
    IN  IsDirectory(fs, key) \/ (key \in DOMAIN fs /\ ~DirectoryForm(relative_path))

\* create_dir_all(parent) then fs::write succeed
CanWrite(fs, relative_path) ==
    LET key == FileKey(relative_path)
    IN  ~DirectoryForm(relative_path) /\ ~IsDirectory(fs, key) /\ ~UnderFile(fs, key)

FsWrite(fs, relative_path, content) ==
    [k \in DOMAIN fs \cup {FileKey(relative_path)} |->
        IF k = FileKey(relative_path) THEN content ELSE fs[k]]

\* ingest/walker.rs: the extensions discover_files keeps
WalkerExtensions ==
    {<<e>> : e \in {"md", "txt", "xml", "yaml", "yml", "json", "toml",
                    "rs", "py", "ts", "js", "go"}}

discover_files(fs) == {p \in DOMAIN fs : Extension(p) \in WalkerExtensions}

\* watch/mod.rs: ALLOWED_EXTENSIONS
WatchExtensions == {<<e>> : e \in {"xml", "yaml", "yml", "json", "md"}}

----------------------------------------------------------------------------
(* cache/chunk_embedding_cache.rs *)

\* inner = None
NotLoaded == [loaded |-> FALSE, map |-> {}]

\* SELECT chunk_id, embedding FROM chunks WHERE embedding IS NOT NULL
load_from_db(db) ==
    [loaded |-> TRUE,
     map |-> {<<c.chunk_id, c.embedding>> : c \in {x \in db.chunks : x.embedding # NoEmbedding}}]

load_if_needed(ch, db) == IF ~ch.loaded THEN load_from_db(db) ELSE ch

\* ChunkEmbeddingCache::clear; no handler of the program calls it
clear(ch) == NotLoaded

----------------------------------------------------------------------------
(* The storage model: files, tables, cache, and the handlers over them.    *)

PathA == <<"Guides", "/", "api", "/", "a", ".", "md">>
PathT == <<"notes", ".", "txt">>
PathPool == {PathA, PathT}

ContentPlain == <<"a", "b">>
ContentArrow == <<"a", " ", Arrow, " ", "b">>
Contents == {ContentPlain, ContentArrow}

\* the audit rows the model lets the write tools add
MaxAuditRows == 2

DB == [documents |-> documents, chunks |-> chunks, entity_relations |-> entity_relations]

SetDB(db) ==
    /\ documents' = db.documents
    /\ chunks' = db.chunks
    /\ entity_relations' = db.entity_relations

Op(op, path, result, same_hash) ==
    [op |-> op, path |-> path, result |-> result, same_hash |-> same_hash]

\* the stored hash of the path equals the hash of the content
HashUnchanged(db, doc_path, content) ==
    doc_path \in DOMAIN db.documents
        /\ db.documents[doc_path].file_hash = compute_file_hash(content)

Orders(S) == {o \in [1..Cardinality(S) -> S] : \A i, j \in 1..Cardinality(S) :
                                                    o[i] = o[j] => i = j}

\* the file system outside the program: a file is written or removed
EditFile(p, c) ==
    /\ CanWrite(disk, p)
    /\ disk' = FsWrite(disk, p, c)
    /\ lastOp' = Op("edit", p, "ok", FALSE)
    /\ UNCHANGED <<documents, chunks, entity_relations, document_operations, cache>>

RemoveFile(p) ==
    /\ p \in DOMAIN disk
    /\ disk' = [k \in DOMAIN disk \ {p} |-> disk[k]]
    /\ lastOp' = Op("remove", p, "ok", FALSE)
    /\ UNCHANGED <<documents, chunks, entity_relations, document_operations, cache>>

\* bin/ingest.rs main: the loop over files_to_process, errors counted per file
RECURSIVE ProcessFiles(_, _, _)
ProcessFiles(db, order, fs) ==
    IF order = <<>> THEN db
    ELSE LET r == IngestContent(db, Head(order), fs[Head(order)])
         IN  ProcessFiles(IF r.ok THEN r.db ELSE db, Tail(order), fs)

IngestRun(force, cleanup) ==
    LET files == discover_files(disk)
        classification == classify_files(files, disk, get_existing_hashes(DB))
        files_to_process ==
            IF force THEN files
            ELSE classification.new_files \cup classification.modified_files
    IN  /\ \E order \in Orders(files_to_process) :
            LET processed == ProcessFiles(DB, order, disk)
                deleted == find_deleted_documents(processed, files)
            IN  IF files = {} THEN UNCHANGED <<documents, chunks, entity_relations>>
                ELSE IF cleanup THEN SetDB(delete_documents(processed, deleted))
                ELSE SetDB(processed)
        /\ lastOp' = Op(IF force THEN "ingest_force" ELSE "ingest",
                        <<>>,
                        IF cleanup THEN "cleanup" ELSE "ok",
                        classification.unchanged_files = files)
        /\ UNCHANGED <<disk, document_operations, cache>>

\* bin/embed.rs without --force: every chunk with a NULL embedding is embedded
EmbedRun ==
    /\ SetDB(store_embeddings_batch(DB, {c \in chunks : c.embedding = NoEmbedding}))
    /\ lastOp' = Op("embed", <<>>, "ok", FALSE)
    /\ UNCHANGED <<disk, document_operations, cache>>

\* watch/mod.rs handle_file_change for an event on a file that exists
HandleFileChange(p, embed_ok) ==
    LET doc_id == DocId(p)
        hash_unchanged == HashUnchanged(DB, p, disk[p])
        r == IngestContent(DB, p, disk[p])
        base == IF hash_unchanged THEN DB ELSE r.db
        missing == get_chunks_without_embedding_for_doc(base, doc_id)
    IN  /\ p \in DOMAIN disk
        /\ IF Extension(p) \notin WatchExtensions
           THEN /\ UNCHANGED <<documents, chunks, entity_relations>>
                /\ lastOp' = Op("watch", p, "skip", FALSE)
           ELSE IF ~hash_unchanged /\ ~r.ok
           THEN /\ UNCHANGED <<documents, chunks, entity_relations>>
                /\ lastOp' = Op("watch", p, "Parse", FALSE)
           ELSE IF missing # {} /\ ~embed_ok
           THEN /\ SetDB(base)
                /\ lastOp' = Op("watch", p, "Embedding", hash_unchanged)
           ELSE /\ SetDB(store_embeddings_batch(base, missing))
                /\ lastOp' = Op("watch", p, "ok", hash_unchanged)
        /\ UNCHANGED <<disk, document_operations, cache>>

\* search_vector with a cache: load_if_needed before the search
SearchVectorLoad ==
    /\ cache' = load_if_needed(cache, DB)
    /\ lastOp' = Op("search", <<>>, "ok", FALSE)
    /\ UNCHANGED <<disk, documents, chunks, entity_relations, document_operations>>

\* mcp/tools.rs handle_create_doc; the cache argument is not used
CreateDoc(p, c) ==
    LET valid == validate_write_path(p)
        r == IngestContent(DB, p, c)
    IN  /\ document_operations < MaxAuditRows
        /\ IF ~valid.ok
           THEN /\ lastOp' = Op("create", p, "Rejected", FALSE)
                /\ UNCHANGED <<disk, documents, chunks, entity_relations,
                               document_operations>>
           ELSE IF PathExists(disk, p)
           THEN /\ lastOp' = Op("create", p, "Exists", FALSE)
                /\ document_operations' = document_operations + 1
                /\ UNCHANGED <<disk, documents, chunks, entity_relations>>
           ELSE IF ~CanWrite(disk, p)
           THEN /\ lastOp' = Op("create", p, "Io", FALSE)
                /\ UNCHANGED <<disk, documents, chunks, entity_relations,
                               document_operations>>
           ELSE IF ~r.ok
           THEN /\ lastOp' = Op("create", p, "Parse", FALSE)
                /\ disk' = FsWrite(disk, p, c)
                /\ UNCHANGED <<documents, chunks, entity_relations, document_operations>>
           ELSE /\ lastOp' = Op("create", p, "ok", HashUnchanged(DB, p, c))
                /\ disk' = FsWrite(disk, p, c)
                /\ SetDB(r.db)
                /\ document_operations' = document_operations + 1
        /\ UNCHANGED cache

\* mcp/tools.rs handle_update_doc; the cache argument is not used
UpdateDoc(p, c) ==
    LET valid == validate_write_path(p)
        r == IngestContent(DB, p, c)
    IN  /\ document_operations < MaxAuditRows
        /\ IF ~valid.ok
           THEN /\ lastOp' = Op("update", p, "Rejected", FALSE)
                /\ UNCHANGED <<disk, documents, chunks, entity_relations,
                               document_operations>>
           ELSE IF ~CanWrite(disk, p)
           THEN /\ lastOp' = Op("update", p, "Io", FALSE)
                /\ UNCHANGED <<disk, documents, chunks, entity_relations,
                               document_operations>>
           ELSE IF ~r.ok
           THEN /\ lastOp' = Op("update", p, "Parse", FALSE)
                /\ disk' = FsWrite(disk, p, c)
                /\ UNCHANGED <<documents, chunks, entity_relations, document_operations>>
           ELSE /\ lastOp' = Op("update", p, "ok", HashUnchanged(DB, p, c))
                /\ disk' = FsWrite(disk, p, c)
                /\ SetDB(r.db)
                /\ document_operations' = document_operations + 1
        /\ UNCHANGED cache

NoSearch == [kind |-> "none"]

StoreInit ==
    /\ disk = [p \in {} |-> <<>>]
    /\ documents = [p \in {} |-> <<>>]
    /\ chunks = {}
    /\ entity_relations = {}
    /\ document_operations = 0
    /\ cache = NotLoaded
    /\ lastOp = Op("init", <<>>, "ok", FALSE)

Init ==
    /\ StoreInit
    /\ request = NoSearch
    /\ response = NoSearch

Next ==
    \/ \E p \in PathPool, c \in Contents : EditFile(p, c) /\ UNCHANGED searchVars
    \/ \E p \in PathPool : RemoveFile(p) /\ UNCHANGED searchVars
    \/ \E force \in BOOLEAN, cleanup \in BOOLEAN :
            IngestRun(force, cleanup) /\ UNCHANGED searchVars
    \/ EmbedRun /\ UNCHANGED searchVars
    \/ \E p \in PathPool, embed_ok \in BOOLEAN :
            HandleFileChange(p, embed_ok) /\ UNCHANGED searchVars
    \/ SearchVectorLoad /\ UNCHANGED searchVars
    \/ \E p \in PathPool, c \in Contents : CreateDoc(p, c) /\ UNCHANGED searchVars
    \/ \E p \in PathPool, c \in Contents : UpdateDoc(p, c) /\ UNCHANGED searchVars

Spec == Init /\ [][Next]_vars

----------------------------------------------------------------------------
(* Properties of the storage model. *)

IsIngestRun(op) == op.op \in {"ingest", "ingest_force"}

ChunksOf(chs, doc_id) == {c \in chs : c.doc_id = doc_id}

AllUnchangedAfterIngest ==
    LET files == discover_files(disk)
        cl == classify_files(files, disk, get_existing_hashes(DB))
    IN  cl.unchanged_files = files /\ cl.new_files = {} /\ cl.modified_files = {}

\* C1: right after a bulk ingestion run (no file changed since), classify_files
\* puts every discovered file in unchanged_files, whatever its extension, and a
\* second run with the same flags leaves the document and chunk counts unchanged.
C1_SecondRunAllUnchanged ==
    [][/\ IsIngestRun(lastOp') => AllUnchangedAfterIngest'
       /\ (IsIngestRun(lastOp) /\ IsIngestRun(lastOp')
                /\ lastOp.op = lastOp'.op /\ lastOp.result = lastOp'.result)
            => /\ Cardinality(DOMAIN documents') = Cardinality(DOMAIN documents)
               /\ Cardinality(chunks') = Cardinality(chunks)]_vars

\* the documents a step re-ingests with a content hash equal to the stored one
ReingestedSameHash ==
    IF lastOp'.op = "ingest_force"
    THEN classify_files(discover_files(disk), disk, get_existing_hashes(DB)).unchanged_files
    ELSE IF lastOp'.op \in {"watch", "update"} /\ lastOp'.same_hash THEN {lastOp'.path}
    ELSE {}

\* C2: re-ingesting a document whose content hash equals the stored hash (forced
\* bulk run, watch handler, update_doc with identical content) is a no-op on
\* storage: the document row, the chunk ids and texts and every stored embedding
\* are the same after the operation as before it.
C2_SameHashReingestIsNoOp ==
    [][\A p \in ReingestedSameHash :
          /\ p \in DOMAIN documents' /\ documents'[p] = documents[p]
          /\ {<<c.chunk_id, c.chunk_text>> : c \in ChunksOf(chunks', DocId(p))}
                = {<<c.chunk_id, c.chunk_text>> : c \in ChunksOf(chunks, DocId(p))}
          /\ \A c \in ChunksOf(chunks, DocId(p)) :
                c.embedding # NoEmbedding => c \in chunks']_vars

\* the chunk texts the pipeline derives from a stored document
ExpectedChunks(doc) ==
    chunk_document(ParserRegistry_parse(doc.content_text, doc.doc_path,
                                        Extension(doc.doc_path))).chunks

\* C3: in every storage state, every chunk has chunk_id = doc_id "::" ordinal and
\* belongs to a document; the ordinals of a document's chunks are exactly 0..n-1,
\* and its chunks are those of its current content, none of a previous one.
C3_ChunkIdsContiguous ==
    /\ \A c \in chunks :
          /\ c.chunk_id = <<c.doc_id, "::", c.chunk_index>>
          /\ \E p \in DOMAIN documents : documents[p].doc_id = c.doc_id
    /\ \A p \in DOMAIN documents :
          LET mine == ChunksOf(chunks, documents[p].doc_id)
              expected == ExpectedChunks(documents[p])
          IN  /\ {c.chunk_index : c \in mine} = 0..(Len(expected) - 1)
              /\ Cardinality(mine) = Len(expected)
              /\ \A c \in mine : c.chunk_text = expected[c.chunk_index + 1]

\* a document of three chunks and one relation was replaced by one of a single chunk
C3_Witness ==
    /\ lastOp.op = "update" /\ lastOp.result = "ok" /\ lastOp.path = PathA
    /\ entity_relations # {}
    /\ Cardinality(ChunksOf(chunks, DocId(PathA))) = 1

\* the relations in the table that were written for a document
RelationsFrom(doc_path) ==
    {[source_entity |-> r.source_entity, relation_type |-> r.relation_type,
      target_entity |-> r.target_entity, metadata_json |-> r.metadata_json]
        : r \in {x \in entity_relations : x.relation_id[1] = doc_path}}

\* C4: after a document is (re-)ingested, the relation table holds for it exactly
\* the relations extracted from its new content; none of the old ones stay when
\* the new content has no arrow pair.
C4_RelationsReplaced ==
    (lastOp.op \in {"update", "watch"} /\ lastOp.result = "ok"
        /\ lastOp.path \in DOMAIN documents)
    => LET doc == documents[lastOp.path]
       IN  RelationsFrom(lastOp.path) =
              IF doc.agent_name = NoAgent THEN {}
              ELSE Range(extract_routing_relations(doc.agent_name, doc.content_text))

\* C5: after create_doc or update_doc has replaced a document's chunks, the chunk
\* embedding cache is unloaded.
C5_CacheInvalidatedOnWrite ==
    (lastOp.op \in {"create", "update"} /\ lastOp.result = "ok") => ~cache.loaded

----------------------------------------------------------------------------
(* The write tools over arbitrary paths.  A call is followed by another    *)
(* only when it wrote a file: a rejected or failed call leaves files and   *)
(* tables as they were, so what can follow it can follow the state before. *)

PathAlphabet == {"/", "\\", ".", " ", "a", "md"}
MaxPathLen == 3
MaxFiles == 1

TokenPaths == SeqsUpTo(PathAlphabet, MaxPathLen)

WroteFile == lastOp.op = "init" \/ lastOp.result \in {"ok", "Parse"}

NextPath ==
    \/ \E p \in TokenPaths :
          /\ WroteFile /\ Cardinality(DOMAIN disk) <= MaxFiles
          /\ CreateDoc(p, ContentPlain) /\ UNCHANGED searchVars
    \/ \E p \in TokenPaths :
          /\ WroteFile /\ Cardinality(DOMAIN disk) <= MaxFiles
          /\ UpdateDoc(p, ContentPlain) /\ UNCHANGED searchVars

SpecPath == Init /\ [][NextPath]_vars

IsWriteTool(op) == op.op \in {"create", "update"}

\* the path is empty, has a ".." component, or starts with a separator
BadPath(path) ==
    \/ path = <<>>
    \/ <<".", ".">> \in Range(Segments(NormalizeSeparators(path)))
    \/ Head(path) \in {"/", "\\"}

\* C10: validate_write_path rejects every path that is empty, has a ".." component
\* or starts with "/" or "\"; a path it accepts resolves under the canonical root;
\* a create_doc or update_doc call whose path is rejected writes no file and
\* changes no storage row.
C10_WritePathValidated ==
    [][IsWriteTool(lastOp') =>
         /\ BadPath(lastOp'.path) => lastOp'.result = "Rejected"
         /\ lastOp'.result # "Rejected" =>
               /\ validate_write_path(lastOp'.path).ok
               /\ IsPrefix(CanonicalRoot, validate_write_path(lastOp'.path).full_path)
         /\ lastOp'.result = "Rejected" =>
               UNCHANGED <<disk, documents, chunks, entity_relations,
                           document_operations>>]_vars

\* update_doc with a ".." path was rejected while a stored document exists
C10_Witness ==
    /\ lastOp.op = "update" /\ lastOp.result = "Rejected"
    /\ ContainsDotDot(lastOp.path)
    /\ DOMAIN documents # {} /\ document_operations = 1

----------------------------------------------------------------------------
(* Search: scores are exact rationals [n, d] with d > 0 (f32 rounding is   *)
(* not modelled).  The iteration order of a HashMap and the row order of a *)
(* SQL result are arbitrary: each is an argument, a sequence of chunk ids. *)

Rat(n, d) == [n |-> n, d |-> d]
RLt(a, b) == IF a.d = b.d THEN a.n < b.n ELSE a.n * b.d < b.n * a.d
RGeq(a, b) == ~RLt(a, b)

\* the exact square root of a perfect square
Sqrt(n) == CHOOSE r \in 0..n : r * r = n

RECURSIVE Dot(_, _)
Dot(a, b) == IF a = <<>> \/ b = <<>> THEN 0 ELSE Head(a) * Head(b) + Dot(Tail(a), Tail(b))

CosineOf(dot, mag_a, mag_b) ==
    IF mag_a = 0 \/ mag_b = 0 THEN Rat(0, 1) ELSE Rat(dot, mag_a * mag_b)

cosine_similarity(a, b) == CosineOf(Dot(a, b), Sqrt(Dot(a, a)), Sqrt(Dot(b, b)))

\* slice::sort_by on the score, descending; the sort is stable
InsertAfter(sorted, x, pos) ==
    SubSeq(sorted, 1, pos) \o <<x>> \o SubSeq(sorted, pos + 1, Len(sorted))

InsertByScore(sorted, x) ==
    InsertAfter(sorted, x,
                Cardinality({i \in 1..Len(sorted) : RGeq(sorted[i].score, x.score)}))

RECURSIVE SortByScoreDesc(_)
SortByScoreDesc(results) ==
    IF results = <<>> THEN <<>>
    ELSE InsertByScore(SortByScoreDesc(SubSeq(results, 1, Len(results) - 1)),
                       results[Len(results)])

\* iter.take(k)
Take(results, k) == SubSeq(results, 1, Min2(k, Len(results)))

\* enumerate(): rank = idx + 1
AssignRanks(results) == [i \in 1..Len(results) |-> [results[i] EXCEPT !.rank = i]]

ChunkIds(results) == [i \in 1..Len(results) |-> results[i].chunk_id]

\* Option::None of a filter
NoFilter == <<>>

\* the row of chunks with this chunk_id; JOIN documents d ON c.doc_id = d.doc_id
ChunkRow(db, chunk_id) == CHOOSE c \in db.chunks : c.chunk_id = chunk_id

DocumentOf(db, chunk_id) ==
    CHOOSE p \in DOMAIN db.documents :
        db.documents[p].doc_id = ChunkRow(db, chunk_id).doc_id

\* AND (? IS NULL OR d.namespace = ?) AND (? IS NULL OR d.agent_name = ?)
PassesFilters(db, chunk_id, namespace, agent_filter) ==
    /\ \E c \in db.chunks : c.chunk_id = chunk_id
    /\ \E p \in DOMAIN db.documents :
            db.documents[p].doc_id = ChunkRow(db, chunk_id).doc_id
    /\ namespace = NoFilter \/ db.documents[DocumentOf(db, chunk_id)].namespace = namespace
    /\ agent_filter = NoFilter
            \/ db.documents[DocumentOf(db, chunk_id)].agent_name = agent_filter

Scored(chunk_id, score) == [chunk_id |-> chunk_id, score |-> score, rank |-> 0]

\* the embedding the cache holds for a chunk id
CachedEmbedding(ch, chunk_id) == (CHOOSE e \in ch.map : e[1] = chunk_id)[2]

\* ChunkEmbeddingCache::top_k_chunk_ids; order is the map's iteration order
top_k_chunk_ids(ch, order, query_vec, limit, min_score) ==
    Take(SortByScoreDesc(
            SelectSeq([i \in 1..Len(order) |->
                          IF \E e \in ch.map : e[1] = order[i]
                          THEN Scored(order[i],
                                      cosine_similarity(query_vec,
                                                        CachedEmbedding(ch, order[i])))
                          ELSE Scored(order[i], Rat(-2, 1))],
                      LAMBDA r : (\E e \in ch.map : e[1] = r.chunk_id)
                                    /\ RGeq(r.score, min_score))),
         limit)

\* search_vector_cached: top k of the whole cache, then the rows that pass the
\* filters, in the order of top
search_vector_cached(db, ch, order, query_vec, k, min_score, namespace, agent_filter) ==
    AssignRanks(SelectSeq(top_k_chunk_ids(ch, order, query_vec, k, min_score),
                          LAMBDA r : PassesFilters(db, r.chunk_id, namespace, agent_filter)))

\* search_vector_full_scan: the rows that pass the filters and hold an embedding,
\* scored, thresholded, sorted, cut to k; order is the row order of the query
search_vector_full_scan(db, order, query_vec, k, min_score, namespace, agent_filter) ==
    AssignRanks(Take(SortByScoreDesc(
        SelectSeq([i \in 1..Len(order) |->
                      IF (\E c \in db.chunks : c.chunk_id = order[i])
                            /\ ChunkRow(db, order[i]).embedding # NoEmbedding
                      THEN Scored(order[i],
                                  cosine_similarity(query_vec,
                                                    ChunkRow(db, order[i]).embedding))
                      ELSE Scored(order[i], Rat(-2, 1))],
                  LAMBDA r : /\ PassesFilters(db, r.chunk_id, namespace, agent_filter)
                             /\ ChunkRow(db, r.chunk_id).embedding # NoEmbedding
                             /\ RGeq(r.score, min_score))), k))

\* search_vector: the cached path when a cache is given and, once loaded, not empty
search_vector(db, ch, use_cache, order, query_vec, k, min_score, namespace, agent_filter) ==
    IF use_cache /\ load_if_needed(ch, db).map # {}
    THEN search_vector_cached(db, load_if_needed(ch, db), order, query_vec, k,
                              min_score, namespace, agent_filter)
    ELSE search_vector_full_scan(db, order, query_vec, k, min_score, namespace,
                                 agent_filter)

\* normalize_bm25_score: 1 / (1 + exp(raw_score)), in thousandths, for the raw
\* scores of the model (0 and the negative scores of better matches)
normalize_bm25_score(raw_score) ==
    CASE raw_score = -2 -> Rat(881, 1000)
      [] raw_score = -1 -> Rat(731, 1000)
      [] OTHER -> Rat(500, 1000)

\* the rows of the FTS query: chunks that MATCH and pass the filters, in
\* ORDER BY raw_score (ties in the row order), LIMIT k.  fts[chunk_id] is the
\* strength of the match (0: no match); bm25() is its negation.
Bm25Rows(db, order, fts, namespace, agent_filter, k) ==
    Take(SortByScoreDesc(
            SelectSeq([i \in 1..Len(order) |-> Scored(order[i], Rat(fts[order[i]], 1))],
                      LAMBDA r : /\ fts[r.chunk_id] > 0
                                 /\ PassesFilters(db, r.chunk_id, namespace, agent_filter))),
         k)

\* search_bm25: an empty query returns nothing; rows are normalized, thresholded,
\* sorted by normalized score and ranked
search_bm25(db, order, query_empty, fts, namespace, agent_filter, k, min_score) ==
    IF query_empty THEN <<>>
    ELSE AssignRanks(SortByScoreDesc(
            SelectSeq([i \in 1..Len(Bm25Rows(db, order, fts, namespace, agent_filter, k)) |->
                          Scored(Bm25Rows(db, order, fts, namespace, agent_filter, k)[i].chunk_id,
                                 normalize_bm25_score(
                                    0 - Bm25Rows(db, order, fts, namespace,
                                                 agent_filter, k)[i].score.n))],
                      LAMBDA r : RGeq(r.score, min_score))))

\* const K: f32 = 60.0
K == 60
\* the longest ranked list given to the fusion
MaxRank == 3

RECURSIVE RankProduct(_)
RankProduct(n) == IF n = 0 THEN 1 ELSE (K + n) * RankProduct(n - 1)

\* RRF scores are kept over one denominator; weights are in tenths
RRFDenominator == 10 * RankProduct(MaxRank)

rrf_score_zero_indexed(weight, rank) ==
    Rat(weight * (RankProduct(MaxRank) \div (K + rank)), RRFDenominator)

\* weight / (K + (rank + 1)), rank the 0-indexed position of enumerate()
rrf_score(weight, rank) ==
    Rat(weight * (RankProduct(MaxRank) \div (K + (rank + 1))), RRFDenominator)

\* scores.insert in the BM25 loop: the last entry of a chunk id stays
Bm25Entry(bm25_results, chunk_id, bm25_weight) ==
    rrf_score(bm25_weight,
              (CHOOSE i \in 1..Len(bm25_results) :
                    /\ bm25_results[i].chunk_id = chunk_id
                    /\ \A j \in (i + 1)..Len(bm25_results) :
                            bm25_results[j].chunk_id # chunk_id) - 1).n

\* and_modify(+=) in the vector loop: every entry of a chunk id is added
RECURSIVE VectorEntries(_, _, _, _)
VectorEntries(vector_results, chunk_id, vector_weight, i) ==
    IF i > Len(vector_results) THEN 0
    ELSE (IF vector_results[i].chunk_id = chunk_id
          THEN rrf_score(vector_weight, i - 1).n ELSE 0)
         + VectorEntries(vector_results, chunk_id, vector_weight, i + 1)

FusedScore(bm25_results, vector_results, chunk_id, bm25_weight, vector_weight) ==
    Rat((IF \E i \in 1..Len(bm25_results) : bm25_results[i].chunk_id = chunk_id
         THEN Bm25Entry(bm25_results, chunk_id, bm25_weight) ELSE 0)
        + VectorEntries(vector_results, chunk_id, vector_weight, 1),
        RRFDenominator)

\* reciprocal_rank_fusion; order is the iteration order of the HashMap
reciprocal_rank_fusion(bm25_results, vector_results, k, bm25_weight, vector_weight, order) ==
    AssignRanks(Take(SortByScoreDesc(
        [i \in 1..Len(SelectSeq(order, LAMBDA c :
                    c \in Range(ChunkIds(bm25_results)) \cup Range(ChunkIds(vector_results)))) |->
            Scored(SelectSeq(order, LAMBDA c :
                        c \in Range(ChunkIds(bm25_results))
                                \cup Range(ChunkIds(vector_results)))[i],
                   FusedScore(bm25_results, vector_results,
                              SelectSeq(order, LAMBDA c :
                                  c \in Range(ChunkIds(bm25_results))
                                          \cup Range(ChunkIds(vector_results)))[i],
                              bm25_weight, vector_weight))]), k))

\* min-max normalization when the range is positive
NormalizeFused(fused, min_rrf_score, score_range) ==
    IF score_range > 0
    THEN [i \in 1..Len(fused) |->
            [fused[i] EXCEPT !.score = Rat(fused[i].score.n - min_rrf_score, score_range)]]
    ELSE fused

adaptive_threshold_as_configured(score_range, min_score) == min_score

\* if score_range < 0.1 { min_score.min(0.2) } else { min_score }
adaptive_threshold(score_range, min_score) ==
    IF score_range * 10 < RRFDenominator
    THEN (IF RLt(Rat(4, 20), min_score) THEN Rat(4, 20) ELSE min_score)
    ELSE min_score

FilterFused(fused, min_rrf_score, score_range, min_score) ==
    SelectSeq(NormalizeFused(fused, min_rrf_score, score_range),
              LAMBDA r : RGeq(r.score, adaptive_threshold(score_range, min_score)))

HybridOfFused(fused, min_score) ==
    IF fused = <<>> THEN <<>>
    ELSE FilterFused(fused, fused[Len(fused)].score.n,
                     fused[1].score.n - fused[Len(fused)].score.n, min_score)

\* search_hybrid: BM25 is called with the namespace and no agent filter, vector
\* search with both; fetch_k = k * 4 and a threshold of 0.0 for both
search_hybrid(db, ch, order, query_empty, fts, query_vec, namespace, agent_filter, k, min_score, bm25_weight, vector_weight) ==
    HybridOfFused(
        reciprocal_rank_fusion(
            search_bm25(db, order, query_empty, fts, namespace, NoFilter, k * 4, Rat(0, 20)),
            search_vector(db, ch, TRUE, order, query_vec, k * 4, Rat(0, 20),
                          namespace, agent_filter),
            k, bm25_weight, vector_weight, order),
        min_score)

----------------------------------------------------------------------------
(* The search model: a corpus of three ingested documents of one chunk     *)
(* each, in two namespaces and under two entities; every chunk holds an    *)
(* embedding of the pool or none.  Searches read the store: one search per *)
(* behaviour shows all of them.                                            *)

PathC == <<"Guides", "/", "cli", "/", "a", ".", "md">>
PathN == <<"notes", "/", "api", "/", "a", ".", "md">>
SearchPaths == <<PathA, PathC, PathN>>

EmptyDB == [documents |-> [p \in {} |-> <<>>], chunks |-> {}, entity_relations |-> {}]

SearchDisk == [p \in Range(SearchPaths) |-> ContentPlain]

\* the three files after a bulk ingestion run
IngestedCorpus == ProcessFiles(EmptyDB, SearchPaths, SearchDisk)

CorpusChunkIds == {c.chunk_id : c \in IngestedCorpus.chunks}

\* embeddings and the query vector: cosines 1 and 3/5
EmbeddingPool == {<<1, 0>>, <<3, 4>>}
QueryVec == <<1, 0>>

NamespaceFilters == {NoFilter, <<"guides">>, <<"notes">>}
AgentFilters == {NoFilter, <<"api">>, <<"cli">>}
\* min_score: 0.0 and the default 0.65
MinScores == {Rat(0, 20), Rat(13, 20)}
MaxK == 2

SearchInit ==
    /\ disk = SearchDisk
    /\ documents = IngestedCorpus.documents
    /\ \E emb \in [CorpusChunkIds -> EmbeddingPool \cup {NoEmbedding}] :
          chunks = {[c EXCEPT !.embedding = emb[c.chunk_id]] : c \in IngestedCorpus.chunks}
    /\ entity_relations = {}
    /\ document_operations = 0
    /\ cache = NotLoaded
    /\ lastOp = Op("init", <<>>, "ok", FALSE)
    /\ request = NoSearch
    /\ response = NoSearch

\* search_vector called with the cache and, on the same store, without it
SearchVector(k, min_score, namespace, agent_filter, cache_order, row_order) ==
    /\ response = NoSearch
    /\ request' = [kind |-> "vector", k |-> k, min_score |-> min_score,
                   namespace |-> namespace, agent_filter |-> agent_filter]
    /\ response' =
          [kind |-> "vector",
           cached |-> ChunkIds(search_vector(DB, cache, TRUE, cache_order, QueryVec, k,
                                             min_score, namespace, agent_filter)),
           full_scan |-> ChunkIds(search_vector(DB, cache, FALSE, row_order, QueryVec, k,
                                                min_score, namespace, agent_filter))]
    /\ cache' = load_if_needed(cache, DB)
    /\ lastOp' = Op("search", <<>>, "ok", FALSE)
    /\ UNCHANGED <<disk, documents, chunks, entity_relations, document_operations>>

\* k of a hybrid search: 1 and the default 5
HybridKs == {1, 5}
MaxFtsGrade == 2
\* bm25_weight and vector_weight of the defaults, in tenths
DefaultWeight == 5

\* search_hybrid with the default weights; the response keeps the two candidate
\* lists next to the results
SearchHybrid(k, min_score, namespace, agent_filter, query_empty, fts, order) ==
    /\ response = NoSearch
    /\ query_empty => \A c \in CorpusChunkIds : fts[c] = 0
    /\ request' = [kind |-> "hybrid", k |-> k, min_score |-> min_score,
                   namespace |-> namespace, agent_filter |-> agent_filter]
    /\ response' =
          [kind |-> "hybrid",
           bm25 |-> ChunkIds(search_bm25(DB, order, query_empty, fts, namespace, NoFilter,
                                         k * 4, Rat(0, 20))),
           vector |-> ChunkIds(search_vector(DB, cache, TRUE, order, QueryVec, k * 4,
                                             Rat(0, 20), namespace, agent_filter)),
           results |-> search_hybrid(DB, cache, order, query_empty, fts, QueryVec, namespace,
                                     agent_filter, k, min_score, DefaultWeight,
                                     DefaultWeight)]
    /\ cache' = load_if_needed(cache, DB)
    /\ lastOp' = Op("search", <<>>, "ok", FALSE)
    /\ UNCHANGED <<disk, documents, chunks, entity_relations, document_operations>>

SearchNext ==
    \/ \E k \in 1..MaxK, min_score \in MinScores, namespace \in NamespaceFilters,
          agent_filter \in AgentFilters,
          cache_order \in Orders(CorpusChunkIds), row_order \in Orders(CorpusChunkIds) :
            SearchVector(k, min_score, namespace, agent_filter, cache_order, row_order)
    \/ \E k \in HybridKs, min_score \in MinScores, namespace \in NamespaceFilters,
          agent_filter \in AgentFilters, query_empty \in BOOLEAN,
          fts \in [CorpusChunkIds -> 0..MaxFtsGrade], order \in Orders(CorpusChunkIds) :
            SearchHybrid(k, min_score, namespace, agent_filter, query_empty, fts, order)

SpecSearch == SearchInit /\ [][SearchNext]_vars

\* C6: for the same corpus, query vector, k, threshold and filters, vector search
\* through the loaded cache returns the same ranked chunk ids as the full scan.
C6_CachedEqualsFullScan ==
    response.kind = "vector" => response.cached = response.full_scan

\* C7: every result of search_hybrid called with a namespace filter and an entity
\* filter belongs to a document of that namespace and that entity.
C7_HybridResultsPassFilters ==
    (response.kind = "hybrid" /\ request.namespace # NoFilter
            /\ request.agent_filter # NoFilter)
        => \A i \in 1..Len(response.results) :
                PassesFilters(DB, response.results[i].chunk_id,
                              request.namespace, request.agent_filter)

\* C8: when exactly one chunk is a candidate (of BM25, of vector search or of both),
\* hybrid search with k = 5, weights (0.5, 0.5) and the default min_score returns that
\* one result, with rank 1 and a score in (0, 1].
C8_SingleMatchReturned ==
    (response.kind = "hybrid" /\ request.k = 5 /\ request.min_score = Rat(13, 20)
            /\ Cardinality(Range(response.bm25) \cup Range(response.vector)) = 1)
        => /\ Len(response.results) = 1
           /\ response.results[1].chunk_id \in Range(response.bm25) \cup Range(response.vector)
           /\ response.results[1].rank = 1
           /\ RLt(Rat(0, 1), response.results[1].score)
           /\ RGeq(Rat(1, 1), response.results[1].score)

----------------------------------------------------------------------------
(* The fusion model: reciprocal_rank_fusion applied to two ranked lists    *)
(* without repeated chunk ids, as the two searches return them.            *)

RRFChunkIds == {"chunk1", "chunk2", "chunk3"}

RankedLists ==
    {l \in SeqsUpTo(RRFChunkIds, MaxRank) :
        \A i, j \in 1..Len(l) : l[i] = l[j] => i = j}

\* weights in tenths: 0.3, 0.5, 0.7
RRFWeights == {3, 5, 7}

\* the SearchResult list of a ranked list of chunk ids
AsResults(ids) == AssignRanks([i \in 1..Len(ids) |-> Scored(ids[i], Rat(0, 1))])

RRFInit ==
    /\ disk = [p \in {} |-> <<>>]
    /\ documents = [p \in {} |-> <<>>]
    /\ chunks = {}
    /\ entity_relations = {}
    /\ document_operations = 0
    /\ cache = NotLoaded
    /\ lastOp = Op("init", <<>>, "ok", FALSE)
    /\ \E bm25 \in RankedLists, vector \in RankedLists, k \in 0..MaxRank,
          bm25_weight \in RRFWeights, vector_weight \in RRFWeights :
            request = [kind |-> "rrf", bm25 |-> bm25, vector |-> vector, k |-> k,
                       bm25_weight |-> bm25_weight, vector_weight |-> vector_weight]
    /\ response = NoSearch

Fuse(order) ==
    /\ response = NoSearch
    /\ response' = [kind |-> "rrf",
                    results |-> reciprocal_rank_fusion(
                                    AsResults(request.bm25), AsResults(request.vector),
                                    request.k, request.bm25_weight, request.vector_weight,
                                    order)]
    /\ lastOp' = Op("fuse", <<>>, "ok", FALSE)
    /\ UNCHANGED <<disk, documents, chunks, entity_relations, document_operations,
                   cache, request>>

RRFNext == \E order \in Orders(RRFChunkIds) : Fuse(order)

SpecRRF == RRFInit /\ [][RRFNext]_vars

\* the 1-indexed rank of a chunk id in a ranked list, 0 when absent
RankIn(ids, chunk_id) ==
    IF \E i \in 1..Len(ids) : ids[i] = chunk_id
    THEN CHOOSE i \in 1..Len(ids) : ids[i] = chunk_id
    ELSE 0

\* weight / (60 + rank) over RRFDenominator, weight in tenths; 0 for rank 0
Reciprocal(weight, rank) ==
    IF rank = 0 THEN 0 ELSE (weight * RankProduct(MaxRank)) \div (60 + rank)

RRFScoresAreSums ==
    \A i \in 1..Len(response.results) :
        /\ response.results[i].score.d = RRFDenominator
        /\ response.results[i].score.n =
              Reciprocal(request.bm25_weight,
                         RankIn(request.bm25, response.results[i].chunk_id))
              + Reciprocal(request.vector_weight,
                           RankIn(request.vector, response.results[i].chunk_id))
        /\ response.results[i].score.n > 0

RRFOutputShape ==
    /\ \A i, j \in 1..Len(response.results) :
            response.results[i].chunk_id = response.results[j].chunk_id => i = j
    /\ \A i \in 1..(Len(response.results) - 1) :
            RGeq(response.results[i].score, response.results[i + 1].score)
    /\ Len(response.results) <= request.k
    /\ \A i \in 1..Len(response.results) : response.results[i].rank = i

EqualWeights == request.bm25_weight = 5 /\ request.vector_weight = 5

\* a chunk at rank 1 in both lists scores 2 * 0.5/61 = 1/61 and is first
RRFTopOfBoth ==
    (EqualWeights /\ request.k >= 1 /\ request.bm25 # <<>> /\ request.vector # <<>>
            /\ request.bm25[1] = request.vector[1])
        => /\ response.results[1].chunk_id = request.bm25[1]
           /\ response.results[1].score.n * 61 = response.results[1].score.d

\* two distinct rank-1 chunks, each of one list only, score 0.5/61 each
RRFTwoTops ==
    \A i \in 1..Len(response.results) :
        (EqualWeights
            /\ RankIn(request.bm25, response.results[i].chunk_id)
                + RankIn(request.vector, response.results[i].chunk_id) = 1)
        => response.results[i].score.n * 122 = response.results[i].score.d

\* C9: reciprocal_rank_fusion gives every chunk the sum over the lists holding it of
\* weight / (60 + rank), ranks 1-indexed; the output holds each chunk id once, is
\* sorted by score in non-increasing order, has at most k entries and ranks 1..n;
\* with weights (0.5, 0.5) a chunk first in both lists scores 2 * 0.5/61 and comes
\* first, and a chunk first in one list only scores 0.5/61.
C9_ReciprocalRankFusion ==
    response.kind = "rrf"
        => RRFScoresAreSums /\ RRFOutputShape /\ RRFTopOfBoth /\ RRFTwoTops

C9_Witness ==
    /\ response.kind = "rrf"
    /\ EqualWeights
    /\ Len(request.bm25) = 3
    /\ Len(request.vector) = 2
    /\ request.bm25[1] = request.vector[1]
    /\ request.k = 2
    /\ Len(response.results) = 2
    /\ response.results[1].score.n * 61 = RRFDenominator

----------------------------------------------------------------------------
(* The write tools, statement by statement.  The HTTP transport runs the   *)
(* handlers of two requests on the threads of the runtime at once: every   *)
(* file-system call and every statement a connection executes outside a    *)
(* transaction is a step of its own.                                       *)

Callers == {1, 2}
CallPath == PathA
WriteTools == {"create", "update"}

Call(c) == request.calls[c]

\* the handler of caller c moves to pc, the rest of its frame unchanged
Goto(c, pc) == request' = [request EXCEPT !.calls[c].pc = pc]

\* registry.parse(&params.content, ..) and chunk_document of the call
CallParsed(c) == ParserRegistry_parse(Call(c).content, CallPath, Extension(CallPath))
CallChunks(c) == chunk_document(CallParsed(c)).chunks

\* the store after insert_document of the call, were it run at once
CallInserted(c) ==
    insert_document(DB, CallPath, CallParsed(c).doc_type, extract_namespace(CallPath),
                    extract_agent_name(CallPath), CallParsed(c).content, Call(c).file_hash)

CallsInit ==
    /\ disk = [p \in {} |-> <<>>]
    /\ documents = [p \in {} |-> <<>>]
    /\ chunks = {}
    /\ entity_relations = {}
    /\ document_operations = 0
    /\ cache = NotLoaded
    /\ lastOp = Op("init", <<>>, "ok", FALSE)
    /\ \E tool \in [Callers -> WriteTools], content \in [Callers -> Contents] :
          request = [kind |-> "calls",
                     calls |-> [c \in Callers |->
                                  [tool |-> tool[c], content |-> content[c], pc |-> "check",
                                   file_hash |-> <<>>, count |-> 0]]]
    /\ response = NoSearch

\* handle_create_doc: absolute_path.exists(), the failure row and the error
ToolCheck(c) ==
    /\ Call(c).pc = "check"
    /\ IF Call(c).tool = "create" /\ PathExists(disk, CallPath)
       THEN /\ document_operations' = document_operations + 1
            /\ Goto(c, "Exists")
       ELSE /\ Goto(c, "write")
            /\ UNCHANGED document_operations
    /\ lastOp' = Op(Call(c).tool, CallPath, "check", FALSE)
    /\ UNCHANGED <<disk, documents, chunks, entity_relations, cache, response>>

\* create_dir_all(parent); fs::write(&absolute_path, &params.content)
ToolWrite(c) ==
    /\ Call(c).pc = "write"
    /\ disk' = FsWrite(disk, CallPath, Call(c).content)
    /\ Goto(c, "hash")
    /\ lastOp' = Op(Call(c).tool, CallPath, "write", FALSE)
    /\ UNCHANGED <<documents, chunks, entity_relations, document_operations, cache, response>>

\* compute_file_hash(&absolute_path): the hash of what the file holds now
ToolHash(c) ==
    /\ Call(c).pc = "hash"
    /\ request' = [request EXCEPT !.calls[c].pc = "delete",
                                  !.calls[c].file_hash =
                                        compute_file_hash(disk[FileKey(CallPath)])]
    /\ lastOp' = Op(Call(c).tool, CallPath, "hash", FALSE)
    /\ UNCHANGED <<disk, documents, chunks, entity_relations, document_operations,
                   cache, response>>

\* insert_document: DELETE FROM chunks WHERE doc_id = ?1
ToolDeleteChunks(c) ==
    /\ Call(c).pc = "delete"
    /\ chunks' = {ch \in chunks : ch.doc_id # DocId(CallPath)}
    /\ Goto(c, "upsert")
    /\ lastOp' = Op(Call(c).tool, CallPath, "delete", FALSE)
    /\ UNCHANGED <<disk, documents, entity_relations, document_operations, cache, response>>

\* insert_document: INSERT INTO documents .. ON CONFLICT(doc_path) DO UPDATE
ToolUpsert(c) ==
    /\ Call(c).pc = "upsert"
    /\ documents' = CallInserted(c).documents
    /\ Goto(c, "relations")
    /\ lastOp' = Op(Call(c).tool, CallPath, "upsert", FALSE)
    /\ UNCHANGED <<disk, chunks, entity_relations, document_operations, cache, response>>

\* insert_document: the closure that replaces the relations of the entity
ToolRelations(c) ==
    /\ Call(c).pc = "relations"
    /\ entity_relations' = CallInserted(c).entity_relations
    /\ Goto(c, IF CallChunks(c) = <<>> THEN "audit" ELSE "chunks")
    /\ lastOp' = Op(Call(c).tool, CallPath, "relations", FALSE)
    /\ UNCHANGED <<disk, documents, chunks, document_operations, cache, response>>

\* the row insert_chunks writes for the chunk at count + idx
NextChunkRow(c) ==
    [chunk_id |-> ChunkIdFormat(DocId(CallPath), ChunkOrdinal(Call(c).count)),
     doc_id |-> DocId(CallPath),
     chunk_index |-> ChunkOrdinal(Call(c).count),
     chunk_text |-> CallChunks(c)[Call(c).count + 1],
     embedding |-> NoEmbedding]

\* insert_chunks: one stmt.execute; a chunk_id already stored fails the call
ToolInsertChunk(c) ==
    /\ Call(c).pc = "chunks"
    /\ IF \E ch \in chunks : ch.chunk_id = NextChunkRow(c).chunk_id
       THEN /\ Goto(c, "Database")
            /\ UNCHANGED chunks
       ELSE /\ chunks' = chunks \cup {NextChunkRow(c)}
            /\ request' = [request EXCEPT
                    !.calls[c].count = @ + 1,
                    !.calls[c].pc = IF Call(c).count + 1 = Len(CallChunks(c))
                                    THEN "audit" ELSE "chunks"]
    /\ lastOp' = Op(Call(c).tool, CallPath, "chunks", FALSE)
    /\ UNCHANGED <<disk, documents, entity_relations, document_operations, cache, response>>

\* log_operation(.., true, ..) and the success result
ToolAudit(c) ==
    /\ Call(c).pc = "audit"
    /\ document_operations' = document_operations + 1
    /\ Goto(c, "ok")
    /\ lastOp' = Op(Call(c).tool, CallPath, "ok", FALSE)
    /\ UNCHANGED <<disk, documents, chunks, entity_relations, cache, response>>

CallsNext ==
    \E c \in Callers :
        \/ ToolCheck(c)
        \/ ToolWrite(c)
        \/ ToolHash(c)
        \/ ToolDeleteChunks(c)
        \/ ToolUpsert(c)
        \/ ToolRelations(c)
        \/ ToolInsertChunk(c)
        \/ ToolAudit(c)

SpecCalls == CallsInit /\ [][CallsNext]_vars

Returned(c) == Call(c).pc \in {"ok", "Exists", "Database"}

\* C11: for any interleaving of create_doc calls on one path at most one call
\* succeeds, and once the calls have returned the file on disk and the stored
\* document hold the content of that call.
C11_CreateNeverOverwrites ==
    (request.kind = "calls" /\ \A c \in Callers : Call(c).tool = "create")
        => /\ Cardinality({c \in Callers : Call(c).pc = "ok"}) <= 1
           /\ \A c \in Callers :
                (Call(c).pc = "ok" /\ \A d \in Callers : Returned(d))
                    => /\ disk[FileKey(CallPath)] = Call(c).content
                       /\ documents[CallPath].content_text = CallParsed(c).content
                       /\ documents[CallPath].file_hash = compute_file_hash(Call(c).content)

\* the (ordinal, text) pairs stored for the document of the path
StoredChunkTexts(doc_path) ==
    {<<ch.chunk_index, ch.chunk_text>> : ch \in ChunksOf(chunks, DocId(doc_path))}

\* the (ordinal, text) pairs of the chunks of the content of the stored row
RowChunkTexts(doc_path) ==
    {<<i - 1, ExpectedChunks(documents[doc_path])[i]>> :
        i \in 1..Len(ExpectedChunks(documents[doc_path]))}

\* C20: the replacement of a document is one transaction: while one writer is at
\* work (the other call has not started), every state a reader can observe holds
\* the document row together with exactly the chunks of the row's content, never
\* none of them, a strict subset, or chunks of the previous content.
C20_ReplacementIsOneTransaction ==
    (request.kind = "calls" /\ CallPath \in DOMAIN documents
            /\ \E c \in Callers : Call(c).pc = "check")
        => StoredChunkTexts(CallPath) = RowChunkTexts(CallPath)

\* the (ordinal, text) pairs of the chunks of the content of a call
CallChunkTexts(c) == {<<i - 1, CallChunks(c)[i]>> : i \in 1..Len(CallChunks(c))}

\* C23: once both of two update_doc calls on one path have returned, the file,
\* the stored content, the stored hash and the stored chunks are all those of
\* the content of one and the same call.
C23_UpdatesLeaveOneContent ==
    (request.kind = "calls" /\ \A c \in Callers : Call(c).tool = "update" /\ Returned(c))
        => \E c \in Callers :
              /\ disk[FileKey(CallPath)] = Call(c).content
              /\ documents[CallPath].content_text = CallParsed(c).content
              /\ documents[CallPath].file_hash = compute_file_hash(Call(c).content)
              /\ StoredChunkTexts(CallPath) = CallChunkTexts(c)

----------------------------------------------------------------------------
(* The bulk run with files that fail: a file that cannot be read (its read *)
(* fails from classification on) and a file that vanishes between the      *)
(* classification and its turn in the loop.                                *)

BulkPaths == {PathA, PathC, PathT}
\* files that fail in one run, of each kind
MaxFailing == 1

FailingSets(files) == {f \in SUBSET files : Cardinality(f) <= MaxFailing}

\* the rag folder without the files of a set
Without(fs, gone) == [p \in DOMAIN fs \ gone |-> fs[p]]

\* classify_files: compute_file_hash(..)? of every discovered file
classify_files_result(files, fs, existing, unreadable) ==
    IF files \cap unreadable # {} THEN [ok |-> FALSE]
    ELSE [ok |-> TRUE, classification |-> classify_files(files, fs, existing)]

\* process_file: read_to_string fails for a file that is gone
process_file(db, doc_path, fs) ==
    IF doc_path \notin DOMAIN fs THEN [ok |-> FALSE, db |-> db]
    ELSE IngestContent(db, doc_path, fs[doc_path])

Stats(db, total_docs, errors) == [db |-> db, total_docs |-> total_docs, errors |-> errors]

\* the loop of main over files_to_process: Ok counts a document, Err an error
RECURSIVE ProcessLoop(_, _, _)
ProcessStep(r, stats, rest, fs) ==
    ProcessLoop(Stats(IF r.ok THEN r.db ELSE stats.db,
                      stats.total_docs + (IF r.ok THEN 1 ELSE 0),
                      stats.errors + (IF r.ok THEN 0 ELSE 1)),
                rest, fs)
ProcessLoop(stats, order, fs) ==
    IF order = <<>> THEN stats
    ELSE ProcessStep(process_file(stats.db, Head(order), fs), stats, Tail(order), fs)

FilesToProcess(force, files, classification) ==
    IF force THEN files ELSE classification.new_files \cup classification.modified_files

Cleanup(db, cleanup, files) ==
    IF cleanup THEN delete_documents(db, find_deleted_documents(db, files)) ELSE db

BulkResponse(aborted, total_docs, errors) ==
    [kind |-> "bulk", aborted |-> aborted, total_docs |-> total_docs, errors |-> errors]

\* main after the loop: cleanup and the report
BulkFinish(stats, cleanup, files) ==
    /\ SetDB(Cleanup(stats.db, cleanup, files))
    /\ response' = BulkResponse(FALSE, stats.total_docs, stats.errors)

\* main of bin/ingest.rs
BulkRun(force, cleanup, unreadable, vanished, order) ==
    /\ response = NoSearch
    /\ unreadable \subseteq discover_files(disk)
    /\ vanished \subseteq discover_files(disk) \ unreadable
    /\ request' = [kind |-> "bulk", force |-> force, files |-> discover_files(disk),
                   unreadable |-> unreadable, vanished |-> vanished,
                   existing_hashes |-> get_existing_hashes(DB), before |-> disk]
    /\ disk' = Without(disk, vanished)
    /\ IF discover_files(disk) = {}
       THEN /\ order = <<>>
            /\ response' = BulkResponse(FALSE, 0, 0)
            /\ UNCHANGED <<documents, chunks, entity_relations>>
       ELSE IF ~classify_files_result(discover_files(disk), disk, get_existing_hashes(DB),
                                       unreadable).ok
       THEN /\ order = <<>>
            /\ response' = BulkResponse(TRUE, 0, 0)
            /\ UNCHANGED <<documents, chunks, entity_relations>>
       ELSE /\ order \in Orders(FilesToProcess(force, discover_files(disk),
                        classify_files(discover_files(disk), disk, get_existing_hashes(DB))))
            /\ BulkFinish(ProcessLoop(Stats(DB, 0, 0), order, Without(disk, vanished)),
                          cleanup, discover_files(disk))
    /\ lastOp' = Op(IF force THEN "ingest_force" ELSE "ingest", <<>>, "ok", FALSE)
    /\ UNCHANGED <<document_operations, cache>>

\* the rag folder of an earlier run: nothing, or every file with the plain content
BulkInit ==
    /\ \E files \in SUBSET BulkPaths : \E fs \in [files -> Contents] : disk = fs
    /\ \E earlier \in {<<>>, <<PathA, PathC, PathT>>} :
          /\ documents = ProcessFiles(EmptyDB, earlier,
                                      [p \in Range(earlier) |-> ContentPlain]).documents
          /\ chunks = ProcessFiles(EmptyDB, earlier,
                                   [p \in Range(earlier) |-> ContentPlain]).chunks
    /\ entity_relations = {}
    /\ document_operations = 0
    /\ cache = NotLoaded
    /\ lastOp = Op("init", <<>>, "ok", FALSE)
    /\ request = NoSearch
    /\ response = NoSearch

BulkNext ==
    \E force \in BOOLEAN, cleanup \in BOOLEAN,
       unreadable \in FailingSets(BulkPaths), vanished \in FailingSets(BulkPaths),
       order \in SeqsUpTo(BulkPaths, Cardinality(BulkPaths)) :
        BulkRun(force, cleanup, unreadable, vanished, order)

SpecBulk == BulkInit /\ [][BulkNext]_vars

\* new or modified at the start of the run, by the hashes stored then
NewOrModified(doc_path) ==
    doc_path \notin DOMAIN request.existing_hashes
        \/ request.existing_hashes[doc_path] # compute_file_hash(request.before[doc_path])

\* the file is one the pipeline can store: a parser is registered for it
Parses(doc_path) ==
    ParserRegistry_parse(request.before[doc_path], doc_path, Extension(doc_path)).ok

\* files of the run with an error of their own
FailedFiles ==
    {p \in request.files :
        \/ p \in request.unreadable
        \/ (request.force \/ NewOrModified(p)) /\ (p \in request.vanished \/ ~Parses(p))}

\* C12: in a bulk run an error of one file (unreadable, vanished since discovery,
\* parse failure) is counted and does not abort the run: the statistics are
\* reported, every failed file is counted, and every other new or modified file
\* is stored with the hash of its content.
C12_FileErrorsDoNotAbort ==
    response.kind = "bulk"
        => /\ ~response.aborted
           /\ response.errors = Cardinality(FailedFiles)
           /\ \A p \in request.files \ FailedFiles :
                NewOrModified(p)
                    => /\ p \in DOMAIN documents
                       /\ documents[p].file_hash = compute_file_hash(request.before[p])

\* without an unreadable file, the errors raised inside the loop are counted
LoopErrorsCounted ==
    (response.kind = "bulk" /\ request.unreadable = {})
        => /\ ~response.aborted
           /\ response.errors = Cardinality(FailedFiles)
           /\ \A p \in request.files \ FailedFiles :
                NewOrModified(p)
                    => /\ p \in DOMAIN documents
                       /\ documents[p].file_hash = compute_file_hash(request.before[p])

----------------------------------------------------------------------------
(* ParserRegistry::parse over the extensions the walker discovers.         *)

MaxContentLen == 3
ParseContents == SeqsUpTo({"a", " ", Arrow}, MaxContentLen)

\* a file of the extension in the root of the rag folder
FileOf(extension) == <<"f", ".">> \o extension

ParseInit ==
    /\ disk = [p \in {} |-> <<>>]
    /\ documents = [p \in {} |-> <<>>]
    /\ chunks = {}
    /\ entity_relations = {}
    /\ document_operations = 0
    /\ cache = NotLoaded
    /\ lastOp = Op("init", <<>>, "ok", FALSE)
    /\ \E extension \in WalkerExtensions, content \in ParseContents :
          request = [kind |-> "parse", extension |-> extension, content |-> content]
    /\ response = NoSearch

Parse ==
    /\ response = NoSearch
    /\ request.kind = "parse"
    /\ response' = [kind |-> "parse",
                    parsed |-> ParserRegistry_parse(request.content,
                                                    FileOf(request.extension),
                                                    request.extension)]
    /\ lastOp' = Op("parse", FileOf(request.extension), "ok", FALSE)
    /\ UNCHANGED <<disk, documents, chunks, entity_relations, document_operations,
                   cache, request>>

ParseNext == Parse

SpecParse == ParseInit /\ [][ParseNext]_vars

StructuredTypes == {"markdown", "xml", "agent_prompt", "yaml", "json"}

\* "<extension>_plaintext"
PlaintextType(extension) ==
    CASE extension = <<"md">> -> "md_plaintext"
      [] extension = <<"txt">> -> "txt_plaintext"
      [] extension = <<"xml">> -> "xml_plaintext"
      [] extension = <<"yaml">> -> "yaml_plaintext"
      [] extension = <<"yml">> -> "yml_plaintext"
      [] extension = <<"json">> -> "json_plaintext"
      [] extension = <<"toml">> -> "toml_plaintext"
      [] extension = <<"rs">> -> "rs_plaintext"
      [] extension = <<"py">> -> "py_plaintext"
      [] extension = <<"ts">> -> "ts_plaintext"
      [] extension = <<"js">> -> "js_plaintext"
      [] extension = <<"go">> -> "go_plaintext"

\* C13: for every extension of the discovery allowlist and every content,
\* ParserRegistry::parse returns a document, never an error; when the document is
\* not a structured one it is the plaintext parse: one section with the whole
\* content and doc_type "<extension>_plaintext".
C13_ParseNeverFails ==
    response.kind = "parse"
        => /\ response.parsed.ok
           /\ response.parsed.doc_type \notin StructuredTypes
                => /\ response.parsed.sections = <<request.content>>
                   /\ response.parsed.doc_type = PlaintextType(request.extension)

----------------------------------------------------------------------------
(* The loop of chunk_text, one iteration a step, for every configuration   *)
(* that Config::validate accepts.                                          *)

MaxChunkSizeTokens == 7
MaxTextBytes == 29
MaxIterations == 32

\* chunk_size_tokens > 0 and chunk_overlap_tokens < chunk_size_tokens
ValidConfigs ==
    {cfg \in (1..MaxChunkSizeTokens) \X (0..MaxChunkSizeTokens) : cfg[2] < cfg[1]}

\* texts of letters with at most one space, after an arrow or not
ChunkTexts ==
    {Bytes(first \o [i \in 1..(MaxTextBytes - Len(Bytes(first))) |->
                        IF i = space THEN " " ELSE "a"]) :
        first \in {<<>>, <<Arrow>>}, space \in 0..MaxTextBytes}

LoopState(start_byte, iterations, done) ==
    [kind |-> "chunk", start_byte |-> start_byte, iterations |-> iterations, done |-> done]

ChunkInit ==
    /\ disk = [p \in {} |-> <<>>]
    /\ documents = [p \in {} |-> <<>>]
    /\ chunks = {}
    /\ entity_relations = {}
    /\ document_operations = 0
    /\ cache = NotLoaded
    /\ lastOp = Op("init", <<>>, "ok", FALSE)
    /\ \E text \in ChunkTexts, cfg \in ValidConfigs :
          request = [kind |-> "chunk", text |-> text,
                     size_tokens |-> cfg[1], overlap_tokens |-> cfg[2]]
    /\ response = LoopState(0, 0, FALSE)

\* the state of the loop after the iteration st from start_byte
AfterIteration(st, iterations) ==
    IF ~st.sliced \/ st.last THEN LoopState(st.next, iterations + 1, TRUE)
    ELSE LoopState(st.next, iterations + 1, FALSE)

\* while start_byte < text.len() { .. }
ChunkIterate ==
    /\ request.kind = "chunk"
    /\ ~response.done
    /\ response.iterations < MaxIterations
    /\ response' =
          IF Trim(request.text) = <<>> \/ ~(response.start_byte < Len(request.text))
          THEN LoopState(response.start_byte, response.iterations, TRUE)
          ELSE AfterIteration(ChunkStep(request.text, response.start_byte,
                                        request.size_tokens * 4,
                                        request.overlap_tokens * 4),
                              response.iterations)
    /\ lastOp' = Op("chunk", <<>>, "ok", FALSE)
    /\ UNCHANGED <<disk, documents, chunks, entity_relations, document_operations,
                   cache, request>>

ChunkLoopNext == ChunkIterate

SpecChunk == ChunkInit /\ [][ChunkLoopNext]_vars

\* C14: for every configuration that passes validation, every iteration of the
\* loop of chunk_text that does not end it starts the next iteration at a strictly
\* greater position.
C14_ChunkLoopAdvances ==
    [][(response.kind = "chunk" /\ ~response'.done)
            => response'.start_byte > response.start_byte]_vars


----------------------------------------------------------------------------
(* graph/traversal.rs: traverse_graph, one iteration of its while loop per *)
(* step.  request is the call, response the locals visited, queue and      *)
(* result; enqueued records every queue.push_back in order, and dequeued   *)
(* every pop_front.  A SELECT without ORDER BY returns its rows in an      *)
(* order the database chooses.                                             *)

EntityA == <<"agent:", "a">>
EntityB == <<"agent:", "b">>
EntityC == <<"agent:", "c">>
EntityD == <<"agent:", "d">>
GraphEntities == {EntityA, EntityB, EntityC}
RelationTypes == {"routes_to", "uses_playbook"}
MaxRelations == 3
TraverseDepths == {0, 1, 2, 5}

\* relation_id is a UUID: one per row
GraphRow(source, type, target) ==
    [relation_id |-> <<source, type, target>>, source_entity |-> source, relation_type |-> type,
     target_entity |-> target, metadata_json |-> <<>>]

\* the rows r1, r2, r3 of setup_test_db_with_relations and r4 of the cycle test
CycleTestGraph ==
    {GraphRow(EntityA, "routes_to", EntityB),
     GraphRow(EntityB, "routes_to", EntityC),
     GraphRow(EntityA, "routes_to", EntityD),
     GraphRow(EntityC, "routes_to", EntityA)}

AllGraphRows ==
    {GraphRow(s, t, d) : s \in GraphEntities, t \in RelationTypes, d \in GraphEntities}

RelationGraphs ==
    {g \in SUBSET AllGraphRows : Cardinality(g) <= MaxRelations} \cup {CycleTestGraph}

\* relation_types: Option<Vec<String>>
NoTypes == [some |-> FALSE, types |-> {}]
SomeTypes(types) == [some |-> TRUE, types |-> types]
TypeFilters == {NoTypes, SomeTypes({"routes_to"}), SomeTypes({})}

\* WHERE source_entity = ? [AND relation_type IN (...)]
OutgoingRelations(table, entity, relation_types) ==
    {r \in table : /\ r.source_entity = entity
                   /\ (relation_types.some => r.relation_type \in relation_types.types)}

DepthReachedOffByOne(depth, max_depth) == depth > max_depth

\* if depth >= max_depth { continue; }
DepthReached(depth, max_depth) == depth >= max_depth

NeverVisited(visited, entity) == TRUE

\* !visited.contains(&rel.target_entity)
Unvisited(visited, entity) == entity \notin visited

TraverseLocals(visited, queue, result, enqueued, dequeued) ==
    [kind |-> "traverse", visited |-> visited, queue |-> queue, result |-> result,
     enqueued |-> enqueued, dequeued |-> dequeued]

\* for rel in relations { ... }, from the i-th row on
RECURSIVE ForRelations(_, _, _, _)
ForRelations(relations, i, depth, st) ==
    IF i > Len(relations) THEN st
    ELSE LET rel == relations[i]
         IN  IF Unvisited(st.visited, rel.target_entity)
             THEN ForRelations(relations, i + 1, depth,
                    TraverseLocals(st.visited \cup {rel.target_entity},
                                   Append(st.queue, <<rel.target_entity, depth + 1>>),
                                   Append(st.result, rel),
                                   Append(st.enqueued, rel.target_entity),
                                   st.dequeued))
             ELSE ForRelations(relations, i + 1, depth, st)

TraverseInit ==
    /\ disk = [p \in {} |-> <<>>]
    /\ documents = [p \in {} |-> <<>>]
    /\ chunks = {}
    /\ entity_relations \in RelationGraphs
    /\ document_operations = <<>>
    /\ cache = [loaded |-> FALSE, map |-> <<>>]
    /\ lastOp = [op |-> "none"]
    /\ \E start_entity \in {EntityA, EntityC}, relation_types \in TypeFilters,
          max_depth \in TraverseDepths :
            /\ request = [kind |-> "traverse", start_entity |-> start_entity,
                          relation_types |-> relation_types, max_depth |-> max_depth]
            /\ response = TraverseLocals({start_entity}, <<<<start_entity, 0>>>>, <<>>,
                                         <<start_entity>>, <<>>)

\* while let Some((entity, depth)) = queue.pop_front(): depth limit reached
TraverseSkip ==
    /\ request.kind = "traverse"
    /\ response.queue # <<>>
    /\ DepthReached(Head(response.queue)[2], request.max_depth)
    /\ response' = TraverseLocals(response.visited, Tail(response.queue), response.result,
                                  response.enqueued,
                                  Append(response.dequeued, Head(response.queue)[1]))
    /\ UNCHANGED <<disk, documents, chunks, entity_relations, document_operations,
                   cache, lastOp, request>>

\* while let Some((entity, depth)) = queue.pop_front(): the entity is expanded
TraverseExpand ==
    /\ request.kind = "traverse"
    /\ response.queue # <<>>
    /\ ~DepthReached(Head(response.queue)[2], request.max_depth)
    /\ LET entity == Head(response.queue)[1]
           depth == Head(response.queue)[2]
           rows == OutgoingRelations(entity_relations, entity, request.relation_types)
       IN  \E relations \in Orders(rows) :
              response' = ForRelations(relations, 1, depth,
                            TraverseLocals(response.visited, Tail(response.queue),
                                           response.result, response.enqueued,
                                           Append(response.dequeued, entity)))
    /\ UNCHANGED <<disk, documents, chunks, entity_relations, document_operations,
                   cache, lastOp, request>>

TraverseNext == TraverseSkip \/ TraverseExpand

SpecTraverse == TraverseInit /\ [][TraverseNext]_vars

\* Ok(result): the queue is empty
TraverseReturned == request.kind = "traverse" /\ response.queue = <<>>

NoDuplicates(s) == \A i, j \in 1..Len(s) : s[i] = s[j] => i = j

ResultTargets == [i \in 1..Len(response.result) |-> response.result[i].target_entity]

\* C15: traverse_graph terminates on every finite graph, cycles and self-loops
\* included.  No entity is pushed on the queue or popped from it twice, the
\* visited set is the set of pushed entities, so the loop runs at most once
\* per entity of the graph; no two returned edges have the same target and none
\* targets the start entity.  On a->b->c, a->d with c->a added, from a with
\* max_depth 5, each of a, b, c is popped at most once and at most 3 edges
\* are returned.
C15_TraversalIsFinite ==
    request.kind = "traverse" =>
        /\ NoDuplicates(response.enqueued)
        /\ NoDuplicates(response.dequeued)
        /\ response.visited = Range(response.enqueued)
        /\ Len(response.dequeued) + Len(response.queue) = Len(response.enqueued)
        /\ NoDuplicates(ResultTargets)
        /\ request.start_entity \notin Range(ResultTargets)
        /\ (entity_relations = CycleTestGraph /\ request.start_entity = EntityA
              /\ request.max_depth = 5 /\ ~request.relation_types.some)
            => Len(response.result) <= 3

\* the traversal of the cycle graph from a with depth 5 returned its three edges
C15_Witness ==
    /\ TraverseReturned
    /\ entity_relations = CycleTestGraph /\ request.start_entity = EntityA
    /\ request.max_depth = 5 /\ ~request.relation_types.some
    /\ Len(response.result) = 3
    /\ Len(response.dequeued) = 4

\* the rows that pass the filter
FilteredRows == {r \in entity_relations :
                    request.relation_types.some => r.relation_type \in request.relation_types.types}

\* the entities at most n filtered edges away from the start entity
RECURSIVE Within(_)
Within(n) ==
    IF n = 0 THEN {request.start_entity}
    ELSE Within(n - 1) \cup {r.target_entity : r \in {x \in FilteredRows : x.source_entity \in Within(n - 1)}}

\* the entities whose shortest distance from the start is between 1 and max_depth
Discovered == Within(request.max_depth) \ {request.start_entity}

\* the shortest distance of an entity of Within(max_depth)
Distance(entity) == CHOOSE n \in 0..request.max_depth :
                        entity \in Within(n) /\ (n > 0 => entity \notin Within(n - 1))

\* the position at which an entity was pushed on the queue
PushedAt(entity) == CHOOSE i \in 1..Len(response.enqueued) : response.enqueued[i] = entity

\* C16: traverse_graph returns exactly the edges by which a breadth-first search
\* first discovers the entities at distance 1..max_depth over the edges that pass
\* the filter: one edge per such entity, a row of the table that passes the
\* filter, leaving an entity one step nearer to the start, and no entity
\* visited earlier has a filtered edge to the same target; with max_depth 0
\* the result is empty.
C16_ReturnsDiscoveryEdges ==
    TraverseReturned =>
        /\ Range(ResultTargets) = Discovered
        /\ Len(response.result) = Cardinality(Discovered)
        /\ \A i \in 1..Len(response.result) :
             LET rel == response.result[i]
             IN  /\ rel \in FilteredRows
                 /\ rel.source_entity \in Within(request.max_depth)
                 /\ Distance(rel.target_entity) = Distance(rel.source_entity) + 1
                 /\ \A r \in FilteredRows :
                      (r.target_entity = rel.target_entity /\ r.source_entity \in response.visited)
                        => PushedAt(r.source_entity) >= PushedAt(rel.source_entity)
        /\ (request.max_depth = 0 => response.result = <<>>)

\* a filtered traversal of depth 2 over a table that also holds a uses_playbook
\* row returned two edges, one of them at distance 2
C16_Witness ==
    /\ TraverseReturned
    /\ request.relation_types = SomeTypes({"routes_to"})
    /\ request.max_depth = 2
    /\ Len(response.result) = 2
    /\ \E r \in entity_relations : r.relation_type = "uses_playbook"
    /\ \E i \in 1..Len(response.result) : Distance(response.result[i].target_entity) = 2


----------------------------------------------------------------------------
(* graph/extraction.rs and ingest/db_writer.rs followed by a traversal: a  *)
(* document whose content is one arrow pair is inserted, then the graph is *)
(* traversed from the entity of its left word with max_depth 1.            *)

MaxWordLen == 3

\* words of letters and hyphens: "A", "Agent-A", "Agent-B", ...
HyphenWords ==
    {w \in SeqsUpTo({"Agent", "A", "B", "-"}, MaxWordLen) :
        /\ w # <<>>
        /\ w[1] # "-" /\ w[Len(w)] # "-"
        /\ \A i \in 1..(Len(w) - 1) : ~(w[i] = "-" /\ w[i + 1] = "-")}

Spaces == {<<>>, <<" ">>}

PathOverview == <<"docs", "/", "module-alpha", "/", "overview", ".", "md">>
AgentModuleAlpha == <<"module-alpha">>

ExtractInit ==
    /\ disk = [p \in {} |-> <<>>]
    /\ documents = [p \in {} |-> <<>>]
    /\ chunks = {}
    /\ entity_relations = {}
    /\ document_operations = <<>>
    /\ cache = [loaded |-> FALSE, map |-> <<>>]
    /\ lastOp = [op |-> "none"]
    /\ \E left \in HyphenWords, right \in HyphenWords, before \in Spaces, after \in Spaces :
          request = [kind |-> "extract", left |-> left, right |-> right,
                     content |-> left \o before \o <<Arrow>> \o after \o right]
    /\ response = [kind |-> "none"]

\* insert_document(.., "agent_prompt", "agents", Some("module-alpha"), content, ..)
\* and the call traverse_graph(&db, "agent:<left word, lowercased>", None, 1)
InsertAndCallTraverse ==
    /\ request.kind = "extract"
    /\ LET db == insert_document(EmptyDB, PathOverview, "agent_prompt", "agents",
                                 AgentModuleAlpha, request.content, <<"hash1">>)
           start_entity == <<"agent:">> \o Lower(request.left)
       IN  /\ documents' = db.documents
           /\ chunks' = db.chunks
           /\ entity_relations' = db.entity_relations
           /\ request' = [kind |-> "traverse", start_entity |-> start_entity,
                          relation_types |-> NoTypes, max_depth |-> 1,
                          left |-> request.left, right |-> request.right,
                          content |-> request.content]
           /\ response' = TraverseLocals({start_entity}, <<<<start_entity, 0>>>>, <<>>,
                                         <<start_entity>>, <<>>)
    /\ UNCHANGED <<disk, document_operations, cache, lastOp>>

ExtractNext == InsertAndCallTraverse \/ TraverseSkip \/ TraverseExpand

SpecExtract == ExtractInit /\ [][ExtractNext]_vars

\* a row is the relation left word -> right word, whole words, lowercased
IsPairRelation(r) ==
    /\ r.relation_type = "routes_to"
    /\ r.source_entity = <<"agent:">> \o Lower(request.left)
    /\ r.target_entity = <<"agent:">> \o Lower(request.right)

\* C17: for a content holding one arrow pair of words that may contain hyphens,
\* extraction stores exactly one relation, of type routes_to, from the whole
\* lowercased left word to the whole lowercased right word, and the traversal of
\* depth 1 from the left word's entity returns exactly that edge.
C17_HyphenatedPairExtracted ==
    request.kind = "traverse" =>
        /\ Cardinality(entity_relations) = 1
        /\ \A r \in entity_relations : IsPairRelation(r)
        /\ TraverseReturned =>
             /\ Len(response.result) = 1
             /\ IsPairRelation(response.result[1])


----------------------------------------------------------------------------
(* embeddings/openai.rs, embeddings/storage.rs, watch/mod.rs, bin/embed.rs *)
(* with the embedding column as the bytes written.  The provider's answer  *)
(* is read from the network: data may hold any number of vectors of any    *)
(* length.  An UPDATE of store_embeddings_batch can fail (the database is  *)
(* opened by the server, the watcher and the CLIs, one connection per      *)
(* call); the function logs it and goes on.                                *)

EmbeddingDim == 1536
ProviderLengths == {EmbeddingDim, 2 * EmbeddingDim}
MaxFailingUpdates == 1

\* f32::to_le_bytes of 1.0_f32 (0x3F800000)
to_le_bytes(f) == IF f = "1.0" THEN <<0, 0, 128, 63>> ELSE <<0, 0, 0, 0>>

\* Vectors and blobs are written run by run: <<n, x>> stands for n copies of x.
\* embedding.iter().flat_map(|f| f.to_le_bytes()).collect()
EmbeddingBytes(embedding) ==
    [i \in 1..Len(embedding) |-> <<embedding[i][1], to_le_bytes(embedding[i][2])>>]

\* bytes.len()
RECURSIVE BlobLength(_)
BlobLength(blob) ==
    IF blob = <<>> THEN 0 ELSE Head(blob)[1] * Len(Head(blob)[2]) + BlobLength(Tail(blob))

ProviderVectors == {<<<<n, "1.0">>>> : n \in ProviderLengths}

\* embed_batch for n texts: an error, or the vectors of data, in order
ProviderResponses(n) ==
    {[ok |-> FALSE, embeddings |-> <<>>]}
        \cup {[ok |-> TRUE, embeddings |-> [i \in 1..count |-> v]] :
                count \in {k \in {n - 1, n} : k >= 0}, v \in ProviderVectors}

\* UPDATE chunks SET embedding = ? WHERE chunk_id = ?
UpdateEmbedding(db, chunk_id, bytes) ==
    [db EXCEPT !.chunks = {IF c.chunk_id = chunk_id THEN [c EXCEPT !.embedding = bytes] ELSE c
                                : c \in @}]

store_embedding(db, chunk_id, embedding) ==
    IF \E c \in db.chunks : c.chunk_id = chunk_id
    THEN [ok |-> TRUE, db |-> UpdateEmbedding(db, chunk_id, EmbeddingBytes(embedding))]
    ELSE [ok |-> FALSE, db |-> db]

\* ids.zip(embeddings)
Zip(ids, embeddings) ==
    [i \in 1..(IF Len(ids) < Len(embeddings) THEN Len(ids) ELSE Len(embeddings)) |->
        <<ids[i], embeddings[i]>>]

\* store_embeddings_batch on (chunk_id, embedding) pairs; the UPDATEs of the
\* chunk ids in failing return Err
RECURSIVE StoreEmbeddingsBatch(_, _, _)
StoreEmbeddingsBatch(db, pairs, failing) ==
    IF pairs = <<>> THEN db
    ELSE StoreEmbeddingsBatch(
            IF Head(pairs)[1] \in failing THEN db
            ELSE UpdateEmbedding(db, Head(pairs)[1], EmbeddingBytes(Head(pairs)[2])),
            Tail(pairs), failing)

\* for (chunk_id, embedding) in chunk_ids.iter().zip(embeddings.iter()) { store_embedding(..) }
RECURSIVE StoreEach(_, _)
StoreEach(db, pairs) ==
    IF pairs = <<>> THEN db
    ELSE StoreEach(store_embedding(db, Head(pairs)[1], Head(pairs)[2]).db, Tail(pairs))

ChunkIdsOf(batch) == [i \in 1..Len(batch) |-> batch[i].chunk_id]

FailingUpdates(rows) == {f \in SUBSET {c.chunk_id : c \in rows} : Cardinality(f) <= MaxFailingUpdates}

EmbedInit ==
    /\ disk = [p \in {PathA} |-> ContentPlain]
    /\ documents = [p \in {} |-> <<>>]
    /\ chunks = {}
    /\ entity_relations = {}
    /\ document_operations = 0
    /\ cache = NotLoaded
    /\ lastOp = Op("init", <<>>, "ok", FALSE)
    /\ request = NoSearch
    /\ response = NoSearch

\* watch/mod.rs handle_file_change for an event on a file that exists
WatchFileChange(p) ==
    LET doc_id == DocId(p)
        hash_unchanged == HashUnchanged(DB, p, disk[p])
        r == IngestContent(DB, p, disk[p])
        base == IF hash_unchanged THEN DB ELSE r.db
        missing == get_chunks_without_embedding_for_doc(base, doc_id)
    IN  /\ p \in DOMAIN disk
        /\ IF Extension(p) \notin WatchExtensions
           THEN /\ UNCHANGED <<documents, chunks, entity_relations>>
                /\ lastOp' = Op("watch", p, "skip", FALSE)
           ELSE IF ~hash_unchanged /\ ~r.ok
           THEN /\ UNCHANGED <<documents, chunks, entity_relations>>
                /\ lastOp' = Op("watch", p, "Parse", FALSE)
           ELSE IF missing = {}
           THEN /\ SetDB(base)
                /\ lastOp' = Op("watch", p, "ok", hash_unchanged)
           ELSE \E batch \in Orders(missing), answer \in ProviderResponses(Cardinality(missing)),
                   failing \in FailingUpdates(missing) :
                     IF ~answer.ok
                     THEN /\ SetDB(base)
                          /\ lastOp' = Op("watch", p, "Embedding", hash_unchanged)
                     ELSE /\ SetDB(StoreEmbeddingsBatch(base,
                                        Zip(ChunkIdsOf(batch), answer.embeddings), failing))
                          /\ lastOp' = Op("watch", p, "ok", hash_unchanged)
        /\ UNCHANGED <<disk, document_operations, cache, request, response>>

\* bin/embed.rs main: the chunks without an embedding, or all of them with --force
EmbedCli(force) ==
    LET rows == IF force THEN chunks ELSE {c \in chunks : c.embedding = NoEmbedding}
    IN  /\ IF rows = {} THEN UNCHANGED <<documents, chunks, entity_relations>>
           ELSE \E batch \in Orders(rows), answer \in ProviderResponses(Cardinality(rows)) :
                   SetDB(StoreEach(DB, Zip(ChunkIdsOf(batch), answer.embeddings)))
        /\ lastOp' = Op(IF force THEN "embed_force" ELSE "embed", <<>>, "ok", FALSE)
        /\ UNCHANGED <<disk, document_operations, cache, request, response>>

EmbedNext ==
    \/ \E c \in Contents : EditFile(PathA, c) /\ UNCHANGED searchVars
    \/ WatchFileChange(PathA)
    \/ \E force \in BOOLEAN : EmbedCli(force)

SpecEmbed == EmbedInit /\ [][EmbedNext]_vars

\* C18: in every reachable storage state, every chunk whose embedding is present
\* holds exactly 4 * 1536 = 6144 bytes, whatever vectors the provider returned
\* to the watch handler and to the embed CLI.
C18_BlobLengthIs6144 ==
    \A c \in chunks : c.embedding # NoEmbedding => BlobLength(c.embedding) = 4 * EmbeddingDim

\* the rows of a set of chunks without their embedding column
WithoutEmbedding(rows) == {[c EXCEPT !.embedding = NoEmbedding] : c \in rows}

\* the step is a run of the watch handler on a supported path
WatchStep == lastOp'.op = "watch" /\ lastOp'.result # "skip" /\ <<documents, chunks, lastOp>>' # <<documents, chunks, lastOp>>

\* C19: a run of the watch handler on a supported path.  With an equal hash it
\* leaves the document rows alone, adds and removes no chunk row, and changes
\* only embeddings that were null, of that document.  Otherwise, when it gets
\* past parsing, the document and its chunk rows are those of the ingestion
\* pipeline for the file.  In both cases, when it returns success every chunk of
\* the document has an embedding.
C19_WatchEmbedsEveryChunk ==
    [][WatchStep =>
        LET p == lastOp'.path
            doc_id == DocId(p)
            r == IngestContent(DB, p, disk[p])
        IN  /\ lastOp'.same_hash =>
                /\ documents' = documents
                /\ WithoutEmbedding(chunks') = WithoutEmbedding(chunks)
                /\ \A c \in chunks : (c.embedding # NoEmbedding \/ c.doc_id # doc_id) => c \in chunks'
            /\ (~lastOp'.same_hash /\ lastOp'.result # "Parse") =>
                /\ documents' = r.db.documents
                /\ WithoutEmbedding(chunks') = WithoutEmbedding(r.db.chunks)
            /\ lastOp'.result = "ok" =>
                \A c \in ChunksOf(chunks', doc_id) : c.embedding # NoEmbedding]_vars


----------------------------------------------------------------------------
(* ingest/mod.rs ingest_file, statement by statement, as the bulk run and  *)
(* the watch handler call it for one file.  Every statement commits on its *)
(* own (no transaction is opened); the ingestion can fail between two of   *)
(* them (a statement returns an error, the task is cancelled, the process  *)
(* is stopped).  A later pass looks at the file again.                     *)

IngestPath == PathA
MaxPasses == 2

\* the frame of the ingestion: where it is, the chunks inserted so far, the
\* passes run, the store when the pass started and where it failed
Ingestion(pc, count, passes, before, failed_at) ==
    [kind |-> "ingest", pc |-> pc, count |-> count, passes |-> passes,
     before |-> before, failed_at |-> failed_at]

IngestParsed == ParserRegistry_parse(disk[IngestPath], IngestPath, Extension(IngestPath))
IngestChunks == chunk_document(IngestParsed).chunks

\* the store after insert_document of the file, were it run at once
IngestInserted ==
    insert_document(DB, IngestPath, IngestParsed.doc_type, extract_namespace(IngestPath),
                    extract_agent_name(IngestPath), IngestParsed.content,
                    compute_file_hash(disk[IngestPath]))

IngestInit ==
    /\ \E earlier \in Contents \cup {<<>>}, content \in Contents :
          /\ disk = [p \in {IngestPath} |-> content]
          /\ LET db == IF earlier = <<>> THEN EmptyDB
                       ELSE IngestContent(EmptyDB, IngestPath, earlier).db
             IN  /\ documents = db.documents
                 /\ chunks = db.chunks
                 /\ entity_relations = db.entity_relations
                 /\ request = Ingestion("start", 0, 0, db, "none")
    /\ document_operations = 0
    /\ cache = NotLoaded
    /\ lastOp = Op("init", <<>>, "ok", FALSE)
    /\ response = NoSearch

IngestGoto(pc) == request' = [request EXCEPT !.pc = pc]

\* classify_files / handle_file_change: the stored hash against the file's hash
PassStart ==
    /\ request.kind = "ingest" /\ request.pc = "start"
    /\ request.passes < MaxPasses
    /\ request' = Ingestion(IF HashUnchanged(DB, IngestPath, disk[IngestPath])
                            THEN "unchanged" ELSE "delete",
                            0, request.passes + 1, DB, "none")
    /\ UNCHANGED <<disk, documents, chunks, entity_relations, document_operations,
                   cache, lastOp, response>>

\* insert_document: DELETE FROM chunks WHERE doc_id = ?1
IngestDeleteChunks ==
    /\ request.kind = "ingest" /\ request.pc = "delete"
    /\ chunks' = {ch \in chunks : ch.doc_id # DocId(IngestPath)}
    /\ IngestGoto("upsert")
    /\ UNCHANGED <<disk, documents, entity_relations, document_operations, cache,
                   lastOp, response>>

\* insert_document: INSERT INTO documents .. ON CONFLICT(doc_path) DO UPDATE
IngestUpsert ==
    /\ request.kind = "ingest" /\ request.pc = "upsert"
    /\ documents' = IngestInserted.documents
    /\ IngestGoto("relations")
    /\ UNCHANGED <<disk, chunks, entity_relations, document_operations, cache,
                   lastOp, response>>

\* insert_document: the closure that replaces the relations of the entity
IngestRelations ==
    /\ request.kind = "ingest" /\ request.pc = "relations"
    /\ entity_relations' = IngestInserted.entity_relations
    /\ IngestGoto(IF IngestChunks = <<>> THEN "ok" ELSE "chunks")
    /\ UNCHANGED <<disk, documents, chunks, document_operations, cache, lastOp, response>>

\* insert_chunks: one stmt.execute
IngestInsertChunk ==
    /\ request.kind = "ingest" /\ request.pc = "chunks"
    /\ chunks' = chunks \cup
          {[chunk_id |-> ChunkIdFormat(DocId(IngestPath), ChunkOrdinal(request.count)),
            doc_id |-> DocId(IngestPath),
            chunk_index |-> ChunkOrdinal(request.count),
            chunk_text |-> IngestChunks[request.count + 1],
            embedding |-> NoEmbedding]}
    /\ request' = [request EXCEPT !.count = @ + 1,
                                  !.pc = IF request.count + 1 = Len(IngestChunks)
                                         THEN "ok" ELSE "chunks"]
    /\ UNCHANGED <<disk, documents, entity_relations, document_operations, cache,
                   lastOp, response>>

\* the ingestion stops after the chunk delete, after the upsert, after the
\* relations or between two chunk inserts: what was written stays written
IngestFails ==
    /\ request.kind = "ingest" /\ request.pc \in {"upsert", "relations", "chunks"}
    /\ request' = [request EXCEPT !.pc = "failed", !.failed_at = request.pc]
    /\ UNCHANGED <<disk, documents, chunks, entity_relations, document_operations,
                   cache, lastOp, response>>

\* the next incremental run, or the next watch event for the file
NextPass ==
    /\ request.kind = "ingest" /\ request.pc \in {"failed", "ok", "unchanged"}
    /\ request.passes < MaxPasses
    /\ IngestGoto("start")
    /\ UNCHANGED <<disk, documents, chunks, entity_relations, document_operations,
                   cache, lastOp, response>>

IngestNext ==
    \/ PassStart
    \/ IngestDeleteChunks
    \/ IngestUpsert
    \/ IngestRelations
    \/ IngestInsertChunk
    \/ IngestFails
    \/ NextPass

SpecIngest == IngestInit /\ [][IngestNext]_vars

\* C21: when the ingestion of a file fails after it started writing, the partial
\* work is discarded: the document rows, the chunks and the relations are those
\* of the store before that ingestion started.
C21_FailedIngestionLeavesNoTrace ==
    (request.kind = "ingest" /\ request.pc = "failed")
        => /\ documents = request.before.documents
           /\ chunks = request.before.chunks
           /\ entity_relations = request.before.entity_relations

\* the stored chunks of the file are those of its content
ChunksAreOfFile ==
    StoredChunkTexts(IngestPath) = {<<i - 1, IngestChunks[i]>> : i \in 1..Len(IngestChunks)}

\* C22: after an ingestion that failed once the document row was upserted and
\* before all chunks were inserted, the next pass does not find the file
\* unchanged: it re-processes it.
C22_NextPassRepairs ==
    [][(request.kind = "ingest" /\ request.pc = "start"
            /\ request.failed_at \in {"relations", "chunks"} /\ ~ChunksAreOfFile)
        => request'.pc # "unchanged"]_vars


----------------------------------------------------------------------------
(* cache/chunk_embedding_cache.rs under concurrent callers.  load_from_db  *)
(* scans the table with no lock held and takes the write lock only to      *)
(* store the map: the scan and the store are two steps.  clear and the     *)
(* readers take the lock for one step.  request holds the frames of the    *)
(* loading threads and a clock that counts the steps; response records,    *)
(* for the claim, when the scan of the cached map started, when clear last *)
(* returned after a storage write, and what top_k_chunk_ids last read.     *)

Loaders == {1, 2}
MaxClock == 7

CacheChunk == [chunk_id |-> ChunkIdFormat(DocId(PathA), 0), doc_id |-> DocId(PathA),
               chunk_index |-> 0, chunk_text |-> ContentPlain, embedding |-> NoEmbedding]

Idle == [pc |-> "idle", rows |-> NotLoaded, scan_start |-> 0]

CacheInit ==
    /\ disk = [p \in {PathA} |-> ContentPlain]
    /\ documents = IngestContent(EmptyDB, PathA, ContentPlain).db.documents
    /\ chunks = {CacheChunk}
    /\ entity_relations = {}
    /\ document_operations = 0
    /\ cache = NotLoaded
    /\ lastOp = Op("init", <<>>, "ok", FALSE)
    /\ request = [kind |-> "cache", clock |-> 0, threads |-> [t \in Loaders |-> Idle]]
    /\ response = [kind |-> "cache", cached_scan_start |-> 0, written |-> FALSE,
                   last_clear |-> 0, read |-> NotLoaded]

Tick == request.kind = "cache" /\ request.clock < MaxClock

\* a storage write completes: an embedding is stored for the chunk
StorageWrite ==
    /\ Tick
    /\ \E e \in EmbeddingPool :
          /\ \E c \in chunks : c.embedding # e
          /\ chunks' = {[c EXCEPT !.embedding = e] : c \in chunks}
    /\ request' = [request EXCEPT !.clock = @ + 1]
    /\ response' = [response EXCEPT !.written = TRUE]
    /\ UNCHANGED <<disk, documents, entity_relations, document_operations, cache, lastOp>>

\* clear(): *self.inner.write().unwrap() = None
CacheClear ==
    /\ Tick
    /\ cache' = clear(cache)
    /\ request' = [request EXCEPT !.clock = @ + 1]
    /\ response' = [response EXCEPT
            !.last_clear = IF response.written THEN request.clock + 1 ELSE @]
    /\ UNCHANGED <<disk, documents, chunks, entity_relations, document_operations, lastOp>>

\* load_if_needed: if !self.is_loaded() { load_from_db }, or load_from_db called
LoadCall(t, if_needed) ==
    /\ Tick
    /\ request.threads[t].pc = "idle"
    /\ request' = [request EXCEPT !.clock = @ + 1,
                                  !.threads[t].pc = IF if_needed /\ cache.loaded
                                                    THEN "idle" ELSE "scan"]
    /\ UNCHANGED <<disk, documents, chunks, entity_relations, document_operations,
                   cache, lastOp, response>>

\* load_from_db: the SELECT over chunks inside with_connection
LoadScan(t) ==
    /\ Tick
    /\ request.threads[t].pc = "scan"
    /\ request' = [request EXCEPT !.clock = @ + 1,
                                  !.threads[t] = [pc |-> "store", rows |-> load_from_db(DB),
                                                  scan_start |-> request.clock + 1]]
    /\ UNCHANGED <<disk, documents, chunks, entity_relations, document_operations,
                   cache, lastOp, response>>

\* load_from_db: *self.inner.write().unwrap() = Some(rows)
LoadStore(t) ==
    /\ Tick
    /\ request.threads[t].pc = "store"
    /\ cache' = request.threads[t].rows
    /\ request' = [request EXCEPT !.clock = @ + 1, !.threads[t] = Idle]
    /\ response' = [response EXCEPT !.cached_scan_start = request.threads[t].scan_start]
    /\ UNCHANGED <<disk, documents, chunks, entity_relations, document_operations, lastOp>>

\* top_k_chunk_ids: the map read under the read lock
CacheRead ==
    /\ Tick
    /\ request' = [request EXCEPT !.clock = @ + 1]
    /\ response' = [response EXCEPT !.read = cache]
    /\ UNCHANGED <<disk, documents, chunks, entity_relations, document_operations,
                   cache, lastOp>>

CacheNext ==
    \/ StorageWrite
    \/ CacheClear
    \/ \E t \in Loaders, if_needed \in BOOLEAN : LoadCall(t, if_needed)
    \/ \E t \in Loaders : LoadScan(t)
    \/ \E t \in Loaders : LoadStore(t)
    \/ CacheRead

SpecCache == CacheInit /\ [][CacheNext]_vars

\* C24: once clear() has returned after a storage write, every loaded state of
\* the cache holds the rows of a scan that started after that clear.
C24_NoSnapshotOlderThanClear ==
    (request.kind = "cache" /\ response.last_clear > 0 /\ cache.loaded)
        => response.cached_scan_start > response.last_clear


----------------------------------------------------------------------------
(* search/hybrid.rs: the fusion, normalization and filtering of            *)
(* search_hybrid executed twice on the same two lists.  Each execution     *)
(* builds its own HashMap, whose iteration order (RandomState) is chosen   *)
(* per map; sort_by is stable, so entries of equal score stay in that      *)
(* order.                                                                  *)

Executions == 2

TwiceInit ==
    /\ disk = [p \in {} |-> <<>>]
    /\ documents = [p \in {} |-> <<>>]
    /\ chunks = {}
    /\ entity_relations = {}
    /\ document_operations = 0
    /\ cache = NotLoaded
    /\ lastOp = Op("init", <<>>, "ok", FALSE)
    /\ \E bm25 \in RankedLists, vector \in RankedLists, k \in 1..MaxRank,
          bm25_weight \in RRFWeights, vector_weight \in RRFWeights, min_score \in MinScores :
            request = [kind |-> "twice", bm25 |-> bm25, vector |-> vector, k |-> k,
                       bm25_weight |-> bm25_weight, vector_weight |-> vector_weight,
                       min_score |-> min_score]
    /\ response = [kind |-> "twice", runs |-> <<>>]

\* one execution: reciprocal_rank_fusion, then the normalization and the filter
FuseAndFilter(order) ==
    /\ request.kind = "twice"
    /\ Len(response.runs) < Executions
    /\ response' = [response EXCEPT !.runs = Append(@,
            HybridOfFused(reciprocal_rank_fusion(
                              AsResults(request.bm25), AsResults(request.vector), request.k,
                              request.bm25_weight, request.vector_weight, order),
                          request.min_score))]
    /\ UNCHANGED <<disk, documents, chunks, entity_relations, document_operations,
                   cache, lastOp, request>>

TwiceNext == \E order \in Orders(RRFChunkIds) : FuseAndFilter(order)

SpecTwice == TwiceInit /\ [][TwiceNext]_vars

\* C25: two executions of the fusion (with the normalization and filtering that
\* follow) on the same lists, k and weights return the same chunk ids with the
\* same ranks, ties and a cut between equal scores included.
C25_FusionIsDeterministic ==
    (request.kind = "twice" /\ Len(response.runs) = Executions)
        => response.runs[1] = response.runs[2]


----------------------------------------------------------------------------
(* search/hybrid.rs: the score range and the threshold of search_hybrid,   *)
(* for weights over the whole interval [0, 1] (in tenths).                 *)

\* 0.0, 0.5 and 1.0
UnitWeights == {0, 5, 10}

ThresholdInit ==
    /\ disk = [p \in {} |-> <<>>]
    /\ documents = [p \in {} |-> <<>>]
    /\ chunks = {}
    /\ entity_relations = {}
    /\ document_operations = 0
    /\ cache = NotLoaded
    /\ lastOp = Op("init", <<>>, "ok", FALSE)
    /\ \E bm25 \in RankedLists, vector \in RankedLists, k \in {1, MaxRank},
          bm25_weight \in UnitWeights, vector_weight \in UnitWeights, min_score \in MinScores :
            request = [kind |-> "threshold", bm25 |-> bm25, vector |-> vector, k |-> k,
                       bm25_weight |-> bm25_weight, vector_weight |-> vector_weight,
                       min_score |-> min_score]
    /\ response = NoSearch

\* max_rrf_score - min_rrf_score, over RRFDenominator
ScoreRange(fused) == IF fused = <<>> THEN 0 ELSE fused[1].score.n - fused[Len(fused)].score.n

\* search_hybrid from the fusion on: range, normalization, threshold, filter
FuseAndThreshold(order) ==
    /\ request.kind = "threshold"
    /\ response = NoSearch
    /\ LET fused == reciprocal_rank_fusion(AsResults(request.bm25), AsResults(request.vector),
                                           request.k, request.bm25_weight,
                                           request.vector_weight, order)
       IN  response' = [kind |-> "threshold",
                        score_range |-> ScoreRange(fused),
                        normalized |-> IF fused = <<>> THEN <<>>
                                       ELSE NormalizeFused(fused, fused[Len(fused)].score.n,
                                                           ScoreRange(fused)),
                        threshold |-> adaptive_threshold(ScoreRange(fused), request.min_score),
                        filtered |-> HybridOfFused(fused, request.min_score)]
    /\ UNCHANGED <<disk, documents, chunks, entity_relations, document_operations,
                   cache, lastOp, request>>

ThresholdNext == \E order \in Orders(RRFChunkIds) : FuseAndThreshold(order)

SpecThreshold == ThresholdInit /\ [][ThresholdNext]_vars

\* min(min_score, 0.2)
LowThreshold(min_score) == IF RLt(Rat(4, 20), min_score) THEN Rat(4, 20) ELSE min_score

\* C30: for weights in [0, 1] the range of the fused scores is below 0.1, so the
\* threshold applied is min(min_score, 0.2) and every result whose normalized
\* score is at least 0.2 is returned, whatever min_score is configured.
C30_ThresholdIsAtMostOneFifth ==
    (request.kind = "threshold" /\ response.kind = "threshold")
        => /\ response.score_range * 10 < RRFDenominator
           /\ response.threshold = LowThreshold(request.min_score)
           /\ \A i \in 1..Len(response.normalized) :
                RGeq(response.normalized[i].score, Rat(4, 20))
                    => \E j \in 1..Len(response.filtered) :
                          response.filtered[j] = response.normalized[i]

\* with min_score 0.65 a result of normalized score between 0.2 and 0.65 was returned
C30_Witness ==
    /\ request.kind = "threshold" /\ response.kind = "threshold"
    /\ request.min_score = Rat(13, 20)
    /\ \E j \in 1..Len(response.filtered) :
          /\ RGeq(response.filtered[j].score, Rat(4, 20))
          /\ RLt(response.filtered[j].score, Rat(13, 20))


----------------------------------------------------------------------------
(* embeddings/openai.rs: embed_with_retry and embed_with_cache. One action  *)
(* is one iteration of the retry loop: the provider request, the match arm  *)
(* and, on the retry arm, the sleep. Error texts are sequences of tokens in *)
(* which every digit is a token of its own, so that str::contains on a      *)
(* status code is a search for three consecutive digits.                    *)

MaxRetries == 3

DigitTokens == <<"0", "1", "2", "3", "4", "5", "6", "7", "8", "9">>

\* the decimal digits of a three-digit status code
StatusDigits(status) ==
    <<DigitTokens[(status \div 100) + 1], DigitTokens[((status \div 10) % 10) + 1],
      DigitTokens[(status % 10) + 1]>>

\* http::StatusCode::canonical_reason
CanonicalReason(status) ==
    CASE status = 400 -> "Bad Request"
      [] status = 429 -> "Too Many Requests"
      [] status = 500 -> "Internal Server Error"
      [] status = 501 -> "Not Implemented"
      [] status = 503 -> "Service Unavailable"
      [] OTHER -> "<unknown status code>"

\* Display of http::StatusCode: the code, a space, the canonical reason
StatusDisplay(status) == StatusDigits(status) \o <<" ", CanonicalReason(status)>>

\* response statuses the provider answers with
ProviderStatuses == {400, 429, 500, 501, 503}

\* error bodies: one without digits, and the context-length message
\* "... you requested 9500 tokens"
PlainBody == <<"Rate limit reached">>
TokenCountBody == <<"you requested ", "9", "5", "0", "0", " tokens">>
ErrorBodies == {PlainBody, TokenCountBody}

Outcome(kind, status, body) == [kind |-> kind, status |-> status, body |-> body]

\* what one request to the provider ends as: an embedding, a 200 with an empty
\* data array, a 200 whose body does not parse, the client timeout (30 s)
\* reported by send(), or a non-success status with a body
ProviderOutcomes ==
    {Outcome(kind, 0, <<>>) : kind \in {"ok", "empty", "parse", "timeout"}}
      \cup {Outcome("status", status, body) : status \in ProviderStatuses, body \in ErrorBodies}

\* reqwest::Error Display of a timed-out send
TimeoutDisplay ==
    <<"error sending request for url (https://api.openai.com/v", "1", "/embeddings)",
      ": operation timed out">>

\* RagmcpError::Embedding(..).to_string() of a failed embed_batch_internal
ErrorText(outcome) ==
    <<"Embedding API error: ">> \o
      (CASE outcome.kind = "timeout" -> <<"Network error: ">> \o TimeoutDisplay
         [] outcome.kind = "status" ->
                <<"OpenAI API error ">> \o StatusDisplay(outcome.status) \o <<": ">> \o outcome.body
         [] outcome.kind = "parse" -> <<"Failed to parse response: ", "EOF while parsing a value">>
         [] OTHER -> <<"Empty response from OpenAI API">>)

\* str::contains
Contains(text, pattern) ==
    \E i \in 1..(Len(text) - Len(pattern) + 1) : SubSeq(text, i, i + Len(pattern) - 1) = pattern

\* e.to_string().contains("429") || .. "500" || "502" || "503" || "504"
should_retry(text) ==
    \E code \in {429, 500, 502, 503, 504} : Contains(text, StatusDigits(code))

RetryInit ==
    /\ disk = [p \in {} |-> <<>>]
    /\ documents = [p \in {} |-> <<>>]
    /\ chunks = {}
    /\ entity_relations = {}
    /\ document_operations = 0
    /\ cache = NotLoaded
    /\ lastOp = Op("init", <<>>, "ok", FALSE)
    /\ \E max_retries \in 0..MaxRetries, entry \in {"embed_with_retry", "embed_with_cache"},
          cached \in BOOLEAN :
            /\ cached => entry = "embed_with_cache"
            /\ request = [kind |-> "retry", entry |-> entry, cached |-> cached,
                          max_retries |-> max_retries, attempt |-> 0, delay |-> 1,
                          history |-> <<>>, waits |-> <<>>]
    /\ response = [kind |-> "retry", result |-> "pending", error |-> <<>>, put |-> FALSE]

Returns(result, error, put) == [kind |-> "retry", result |-> result, error |-> error, put |-> put]

\* embed_with_cache, cache hit: the cached vector is returned, no request is made
CacheHit ==
    /\ request.kind = "retry"
    /\ response.result = "pending"
    /\ request.cached
    /\ response' = Returns("ok", <<>>, FALSE)
    /\ UNCHANGED <<disk, documents, chunks, entity_relations, document_operations,
                   cache, lastOp, request>>

\* one iteration of the loop of embed_with_retry_internal
RetryAttempt(outcome) ==
    /\ request.kind = "retry"
    /\ response.result = "pending"
    /\ ~request.cached
    /\ LET made == [request EXCEPT !.history = Append(@, outcome)]
       IN  IF outcome.kind = "ok"
           THEN /\ request' = made
                /\ response' = Returns("ok", <<>>, request.entry = "embed_with_cache")
           ELSE IF outcome.kind = "empty"
           THEN /\ request' = made
                /\ response' = Returns("err", ErrorText(outcome), FALSE)
           ELSE IF request.attempt < request.max_retries /\ should_retry(ErrorText(outcome))
           THEN /\ request' = [made EXCEPT !.waits = Append(@, request.delay),
                                           !.delay = request.delay * 2,
                                           !.attempt = request.attempt + 1]
                /\ UNCHANGED response
           ELSE /\ request' = made
                /\ response' = Returns("err", ErrorText(outcome), FALSE)
    /\ UNCHANGED <<disk, documents, chunks, entity_relations, document_operations,
                   cache, lastOp>>

RetryNext ==
    \/ CacheHit
    \/ \E outcome \in ProviderOutcomes : RetryAttempt(outcome)

SpecRetry == RetryInit /\ [][RetryNext]_vars

\* request i was followed by another request (or will be: the loop is at its top)
FollowedByRetry(i) ==
    \/ i < Len(request.history)
    \/ i = Len(request.history) /\ response.result = "pending"

\* an HTTP 429 or an HTTP 5xx response
RetryableResponse(outcome) ==
    outcome.kind = "status" /\ (outcome.status = 429 \/ outcome.status \in 500..599)

\* C26: embed_with_retry makes at most max_retries + 1 requests and none after a
\* success; the waits between requests are 1 s, 2 s, 4 s, ...; a failed request
\* is followed by another one exactly when it was a 429 or 5xx response and
\* attempts remain, every other failure being returned at once.
C26_RetriesExactlyOn429And5xx ==
    request.kind = "retry" =>
        /\ Len(request.history) <= request.max_retries + 1
        /\ \A i \in 1..Len(request.history) :
              /\ request.history[i].kind \in {"ok", "empty"} => i = Len(request.history)
              /\ FollowedByRetry(i) <=>
                    (RetryableResponse(request.history[i]) /\ i <= request.max_retries)
        /\ \A i \in 1..Len(request.waits) : request.waits[i] = 2 ^ (i - 1)

\* C27: a request that ran into the 30-second timeout is retried while attempts
\* remain, as a 429 or 5xx response is.
C27_TimeoutIsRetried ==
    request.kind = "retry" =>
        \A i \in 1..Len(request.history) :
            (request.history[i].kind = "timeout" /\ i <= request.max_retries)
                => FollowedByRetry(i)


----------------------------------------------------------------------------
(* watch/watcher.rs: the debouncer of run_watcher_thread. Time is counted   *)
(* in ticks; every age saturates at the debounce window, which is all the   *)
(* code compares it with. One action is one iteration of the loop.          *)

\* the debounce window, in ticks
Debounce == 2
\* capacity given to the channel from the notify callback to the loop
MaxQueue == 1
\* bursts of raw events per path
MaxBursts == 2

WatchPaths == {"a.md", "b.md"}

Aged(age) == IF age < Debounce THEN age + 1 ELSE Debounce

\* pending.insert(p, now) for every path of the event
Inserted(age, paths) == [p \in WatchPaths |-> IF p \in paths THEN 0 ELSE age[p]]

\* filter(|(_, t)| now.duration_since(**t) >= debounce)
Ready(pending, age) == {p \in pending : age[p] >= Debounce}

RemainingKeepsReady(pending, ready) == pending

\* for p in &ready { pending.remove(p); }
Remaining(pending, ready) == pending \ ready

DebounceRequest(queue, pending, age, waited, since, stopped, connected, running) ==
    [kind |-> "debounce", queue |-> queue, pending |-> pending, age |-> age,
     waited |-> waited, since |-> since, stopped |-> stopped, connected |-> connected,
     running |-> running]

\* sends: tx.send(p) calls that succeeded, per path; bursts: bursts of raw
\* events, per path; sent_after: time between the last raw event of the path
\* and its last send
DebounceObserved(sends, bursts, sent_after) ==
    [kind |-> "debounce", sends |-> sends, bursts |-> bursts, sent_after |-> sent_after]

DebounceInit ==
    /\ disk = [p \in {} |-> <<>>]
    /\ documents = [p \in {} |-> <<>>]
    /\ chunks = {}
    /\ entity_relations = {}
    /\ document_operations = 0
    /\ cache = NotLoaded
    /\ lastOp = Op("init", <<>>, "ok", FALSE)
    /\ request = DebounceRequest(<<>>, {}, [p \in WatchPaths |-> Debounce], 0,
                                 [p \in WatchPaths |-> Debounce], {}, TRUE, TRUE)
    /\ response = DebounceObserved([p \in WatchPaths |-> 0], [p \in WatchPaths |-> 0],
                                   [p \in WatchPaths |-> Debounce])

DebounceStore == <<disk, documents, chunks, entity_relations, document_operations, cache, lastOp>>

\* one tick of time
TimePasses ==
    /\ request.kind = "debounce"
    /\ request' = [request EXCEPT !.waited = Aged(@),
                                  !.age = [p \in WatchPaths |->
                                              IF p \in request.pending THEN Aged(@[p]) ELSE @[p]],
                                  !.since = [p \in WatchPaths |-> Aged(@[p])]]
    /\ UNCHANGED <<DebounceStore, response>>

\* the notify callback: event_tx.send(ev.paths). An event that comes a whole
\* window or more after the previous one of its path starts a new burst.
RawEvent(paths) ==
    /\ request.kind = "debounce"
    /\ request.running
    /\ paths # {}
    /\ paths \cap request.stopped = {}
    /\ Len(request.queue) < MaxQueue
    /\ \A p \in paths : request.since[p] >= Debounce => response.bursts[p] < MaxBursts
    /\ response' = [response EXCEPT !.bursts = [p \in WatchPaths |->
                        IF p \in paths /\ request.since[p] >= Debounce THEN @[p] + 1 ELSE @[p]]]
    /\ request' = [request EXCEPT !.queue = Append(@, paths),
                                  !.since = [p \in WatchPaths |-> IF p \in paths THEN 0 ELSE @[p]]]
    /\ UNCHANGED DebounceStore

\* the file stops changing: no further raw event for p
EventsStop(p) ==
    /\ request.kind = "debounce"
    /\ p \notin request.stopped
    /\ request' = [request EXCEPT !.stopped = @ \cup {p}]
    /\ UNCHANGED <<DebounceStore, response>>

\* run_watcher returns (join error of the receiving task): rx is dropped
ConsumerDrop ==
    /\ request.kind = "debounce"
    /\ request.connected
    /\ request' = [request EXCEPT !.connected = FALSE]
    /\ UNCHANGED <<DebounceStore, response>>

\* recv_timeout returns Ok(paths)
RecvOk ==
    /\ request.kind = "debounce"
    /\ request.running
    /\ request.queue # <<>>
    /\ request' = [request EXCEPT !.queue = Tail(@),
                                  !.pending = @ \cup Head(request.queue),
                                  !.age = Inserted(@, Head(request.queue)),
                                  !.waited = 0]
    /\ UNCHANGED <<DebounceStore, response>>

\* recv_timeout returns Err(Timeout): no event for a whole window
RecvTimeout ==
    /\ request.kind = "debounce"
    /\ request.running
    /\ request.queue = <<>>
    /\ request.waited >= Debounce
    /\ LET ready == Ready(request.pending, request.age)
       IN  /\ request' = [request EXCEPT
                  !.pending = Remaining(@, ready),
                  !.age = [p \in WatchPaths |->
                              IF p \in Remaining(request.pending, ready) THEN @[p] ELSE Debounce],
                  !.waited = 0,
                  !.running = (ready = {} \/ request.connected)]
           /\ response' = IF request.connected
                          THEN [response EXCEPT
                                   !.sends = [p \in WatchPaths |->
                                       IF p \in ready /\ @[p] <= MaxBursts THEN @[p] + 1 ELSE @[p]],
                                   !.sent_after = [p \in WatchPaths |->
                                       IF p \in ready THEN request.since[p] ELSE @[p]]]
                          ELSE response
    /\ UNCHANGED DebounceStore

DebounceNext ==
    \/ TimePasses
    \/ \E paths \in SUBSET WatchPaths : RawEvent(paths)
    \/ \E p \in WatchPaths : EventsStop(p)
    \/ ConsumerDrop
    \/ RecvOk
    \/ RecvTimeout

SpecDebounce == DebounceInit /\ [][DebounceNext]_vars

\* the loop is scheduled and time advances
SpecDebounceFair ==
    SpecDebounce /\ WF_vars(TimePasses) /\ WF_vars(RecvOk) /\ WF_vars(RecvTimeout)

InEventQueue(p) == \E i \in 1..Len(request.queue) : p \in request.queue[i]

C29_NoPathIsStarved ==
    \A p \in WatchPaths :
        (request.kind = "debounce" /\ p \in request.stopped /\ p \in request.pending)
            ~> (p \notin request.pending \/ ~request.connected)

====
